---- MODULE Spec2Model ----
(***************************************************************************)
(* A model of the catbox IRC daemon (src/unnamed/part_000): the server     *)
(* state owned by the event loop of Server.start, and the handlers the     *)
(* event loop runs on it.                                                   *)
(*                                                                          *)
(* Strings are TLA+ strings; the byte-level functions of the source        *)
(* (strings.ToLower, the validators, the numeric test of                    *)
(* Server.messageClient) are computed byte by byte through Ord.             *)
(*                                                                          *)
(* A handler is an operator from a world record (the server state as a     *)
(* value) to the world record after the handler; the actions of the        *)
(* specification apply a handler to the current state.                      *)
(*                                                                          *)
(* SpecFibers adds the goroutines around the event loop (the acceptor, the *)
(* alarm, one reader and one writer per connection) and the channels        *)
(* between them; there a handler's sends are done one at a time, each       *)
(* waiting for room on the WriteChan.                                       *)
(***************************************************************************)
EXTENDS Integers, Sequences, FiniteSets, TLC

\* ------------------------------------------------------------------------
\* Bounds of the model.

\* Number of connections the acceptor accepts (ids 0 .. MaxClients-1).
MaxClients == 3

\* The clock (seconds) stops advancing at MaxTime.
MaxTime == 1

\* The clock advances only in runs with at most TimedClients connections.
TimedClients == 2
\* The clients of the runs with operators.
OperClients == 2

\* The clients of the runs with long PRIVMSGs.
TrimClients == 2

\* The length of the longest PRIVMSG target.
TargetLen == 490

\* The length of the longest PRIVMSG text.
TextLen == 600

\* Number of connections accepted in the runs with goroutines.
FiberClients == 2

\* Capacity of a WriteChan in the runs with goroutines (100 in the source).
OutboxCap == 2

\* Number of connections the peers reset in the runs with goroutines.
MaxResets == 1

\* ------------------------------------------------------------------------
\* Program constants.

maxNickLength == 9

maxChannelLength == 50

\* Capacity of newClientChan, messageServerChan and deadClientChan.
ChanCap == 100

\* irc.MaxLineLength of the line codec the daemon imports.
MaxLineLength == 512

\* The longest real name userCommand accepts.
maxRealNameLength == 64

\* time.Time{}: the value of a timestamp that was never set.
ZeroTime == -1

\* now.Sub(time.Time{}) saturates at the largest Duration (about 9223372036
\* seconds); the model takes the largest number its integers hold.
MaxDuration == 2147483647

\* ------------------------------------------------------------------------
\* Configuration (Server.Config and the fields parsed from it).

ServerName == "irc.test"

ServerVersion == "catbox-1"

CreatedDate == "2016-01-01"

Motd == "hello"

ServerInfo == "a test server"

\* Server.Opers: the passwords of the operators, by name.
Opers == [name \in {"root"} |-> "secret"]

\* ------------------------------------------------------------------------
\* Bytes of a string.

Digits == "0123456789"

Upper == "ABCDEFGHIJKLMNOPQRSTUVWXYZ"

Lower == "abcdefghijklmnopqrstuvwxyz"

CharAt(s, i) == SubSeq(s, i, i)

IndexIn(c, s) ==
    IF \E i \in 1..Len(s) : CharAt(s, i) = c
    THEN CHOOSE i \in 1..Len(s) : CharAt(s, i) = c
    ELSE 0

\* The byte of a one-character string (ASCII). Characters the model never
\* feeds to a byte test other than these map to 0.
Ord(c) ==
    IF IndexIn(c, Lower) > 0 THEN 96 + IndexIn(c, Lower)
    ELSE IF IndexIn(c, Upper) > 0 THEN 64 + IndexIn(c, Upper)
    ELSE IF IndexIn(c, Digits) > 0 THEN 47 + IndexIn(c, Digits)
    ELSE IF c = "#" THEN 35
    ELSE IF c = "_" THEN 95
    ELSE IF c = "+" THEN 43
    ELSE IF c = "-" THEN 45
    ELSE IF c = " " THEN 32
    ELSE IF c = "!" THEN 33
    ELSE 0

\* strings.ToLower on one byte.
LowerChar(c) ==
    IF Ord(c) >= 65 /\ Ord(c) <= 90 THEN CharAt(Lower, Ord(c) - 64) ELSE c

RECURSIVE ToLower(_)
ToLower(s) ==
    IF Len(s) = 0 THEN ""
    ELSE IF Len(s) = 1 THEN LowerChar(s)
    ELSE ToLower(SubSeq(s, 1, Len(s) \div 2)) \o ToLower(SubSeq(s, (Len(s) \div 2) + 1, Len(s)))

\* fmt %d of a natural number.
RECURSIVE Itoa(_)
Itoa(n) ==
    IF n < 10 THEN CharAt(Digits, n + 1)
    ELSE Itoa(n \div 10) \o CharAt(Digits, (n % 10) + 1)

\* ------------------------------------------------------------------------
\* Canonical names and validity.

canonicalizeNick(n) == ToLower(n)

canonicalizeChannel(c) == ToLower(c)

IsLowerByte(b) == b >= 97 /\ b <= 122

IsDigitByte(b) == b >= 48 /\ b <= 57

isValidNick(n) ==
    /\ Len(n) # 0
    /\ Len(n) <= maxNickLength
    /\ \A i \in 1..Len(n) :
          LET b == Ord(CharAt(n, i)) IN
          \/ IsLowerByte(b)
          \/ IsDigitByte(b) /\ i # 1
          \/ b = 95

isValidUser(u) ==
    /\ Len(u) # 0
    /\ Len(u) <= maxNickLength
    /\ \A i \in 1..Len(u) :
          LET b == Ord(CharAt(u, i)) IN IsLowerByte(b) \/ IsDigitByte(b)

isValidChannel(c) ==
    /\ Len(c) # 0
    /\ Len(c) <= maxChannelLength
    /\ \A i \in 1..Len(c) :
          LET b == Ord(CharAt(c, i)) IN
          IF i = 1 THEN b = 35 ELSE IsLowerByte(b) \/ IsDigitByte(b)

\* ------------------------------------------------------------------------
\* The state.

ClientIds == 0..(MaxClients - 1)

VARIABLES
    Clients,       \* Server.Clients: the ids in the client index
    Nicks,         \* Server.Nicks: canonical nick -> client id
    Channels,      \* Server.Channels: canonical name -> ids of Channel.Members
    client,        \* the Client objects the acceptor built, by id
    nextID,        \* the acceptor's id counter: ids below it were announced
    shutdownClosed,\* ShutdownChan is closed
    listenerClosed,\* Server.Listener is closed
    running,       \* the event loop is in MessageLoop
    panicked,      \* "" or the run-time panic that ended the process
    now,           \* time.Now(), in seconds
    PingTime,      \* Server.PingTime, seconds
    DeadTime       \* Server.DeadTime, seconds

\* The goroutines around the event loop, and what they share with it.
VARIABLES
    acceptor,          \* acceptConnections: "check", "accept", "announce", "done"
    accID,             \* acceptConnections: id
    newClientChan,     \* the ids of the clients on newClientChan
    newClientClosed,   \* newClientChan is closed
    messageServerChan, \* the ClientMessages on messageServerChan
    deadClientChan,    \* the ids of the clients on deadClientChan
    alarmPc,           \* alarm: "send", "check", "done"
    fromAlarmClosed,   \* fromAlarmChan is closed
    loopPc,            \* start: "select", "send", "drainNew", "drainAlarm", "wait", "done"
    pending,           \* what the handler the event loop is in has yet to do
    reader,            \* readLoop of each client: its position and the message it holds
    writer,            \* writeLoop of each client: its position and the message it holds
    WriteChan,         \* the messages on the WriteChan of each client
    writeChanClosed,   \* the WriteChan of each client is closed
    conn,              \* the connection of each client: "open", "reset" by the peer, "closed" by the writer
    reads,             \* how many messages the reader of each client has read
    dispatched,        \* the last message of each client the event loop took (its number)
    enqueued,          \* how many messages went on the WriteChan of each client
    written            \* the last message the writer of each client wrote (its number)

\* The state of the server that the event loop owns.
svars == <<Clients, Nicks, Channels, client, nextID, shutdownClosed, listenerClosed, running,
           panicked, now, PingTime, DeadTime>>

\* The state of the goroutines and the channels.
fvars == <<acceptor, accID, newClientChan, newClientClosed, messageServerChan,
           deadClientChan, alarmPc, fromAlarmClosed, loopPc, pending, reader,
           writer, WriteChan, writeChanClosed, conn, reads, dispatched, enqueued,
           written>>

\* The same without the position of the event loop.
gvars == <<acceptor, accID, newClientChan, newClientClosed, messageServerChan,
           deadClientChan, alarmPc, fromAlarmClosed, reader, writer, WriteChan,
           writeChanClosed, conn, reads, dispatched, enqueued, written>>

vars == <<svars, fvars>>

\* The Client the acceptor builds (acceptConnections): no nick, no channels,
\* no modes, both timestamps unset, an open WriteChan.
NewClientObject ==
    [Registered |-> FALSE, Nick |-> "", User |-> "", RealName |-> "",
     Channels |-> {}, Modes |-> {}, LastActivityTime |-> ZeroTime,
     LastPingTime |-> ZeroTime, WriteChanClosed |-> FALSE]

\* Client.IP: the peer address of connection id.
IPOf(id) == "10.0.0." \o Itoa(id + 1)

\* The server state as one value. Its field sent collects, in order, what a
\* handler sends on the WriteChans (each message with the client it goes
\* to), and its field at the server state at each of these sends: a send
\* waits while the WriteChan is full, and what the handler writes after the
\* send it writes after the wait. Its field signalled is empty, or holds
\* the server state between close(s.ShutdownChan) and s.Listener.Close()
\* of the Server.shutdown the handler ran: the other goroutines can see
\* the one closed and the other open. The writers drain the WriteChans
\* concurrently, so the state keeps of a WriteChan only whether it is
\* closed.
World ==
    [Clients |-> Clients, Nicks |-> Nicks, Channels |-> Channels,
     client |-> client, shutdownClosed |-> shutdownClosed,
     listenerClosed |-> listenerClosed,
     panicked |-> panicked, now |-> now, PingTime |-> PingTime,
     DeadTime |-> DeadTime, sent |-> <<>>, at |-> <<>>, signalled |-> <<>>]

\* The server state of world W.
Tracked(W) == [W EXCEPT !.sent = <<>>, !.at = <<>>, !.signalled = <<>>]

\* What the model keeps of a Client that Client.quit took out of the client
\* index: the event loop never looks at it again (every case of its select
\* looks the id up in Server.Clients first), and its reader and writer use
\* only its connection and its WriteChan. (Client.quit leaves the Channels
\* map of the Client as it was; nothing reads it afterwards.)
Forgotten == [NewClientObject EXCEPT !.WriteChanClosed = TRUE]

\* The state becomes world W.
Become(W) ==
    /\ Clients' = W.Clients
    /\ Nicks' = W.Nicks
    /\ Channels' = W.Channels
    /\ client' = [id \in ClientIds |->
                    IF id \in W.Clients \/ id >= nextID THEN W.client[id] ELSE Forgotten]
    /\ shutdownClosed' = W.shutdownClosed
    /\ listenerClosed' = W.listenerClosed
    /\ panicked' = W.panicked
    /\ UNCHANGED <<now, PingTime, DeadTime>>

\* ------------------------------------------------------------------------
\* Go maps as functions, and the order a range statement visits a map in.

EmptyMap == [x \in {} |-> 0]

\* m[k] = v
MapPut(f, k, v) == (k :> v) @@ f

\* delete(m, k). (The @@ makes the function an explicit one.)
MapDelete(f, k) == [x \in DOMAIN f \ {k} |-> f[x]] @@ EmptyMap

\* The permutations of a finite set, as sequences.
Perms(S) ==
    {p \in [1..Cardinality(S) -> S] : \A i, j \in 1..Cardinality(S) : i # j => p[i] # p[j]}

\* The elements of S in the order of sequence ord (those ord does not
\* mention come last). A range over a Go map visits it in an unspecified
\* order, and every range statement that runs takes an order of its own.
InOrder(S, ord) ==
    LET rest == S \ {ord[i] : i \in 1..Len(ord)} IN
    IF rest = {} THEN SelectSeq(ord, LAMBDA x : x \in S)
    ELSE SelectSeq(ord, LAMBDA x : x \in S) \o (CHOOSE p \in Perms(rest) : TRUE)

\* The orders of one run of a handler are a record ord: ord.top for the
\* range over Server.Clients and, for each client c the run acts for,
\* ord.each[c] with ch for the range over c.Channels, cl[name] for the
\* range over the Members of channel name and cl2[name] for the second
\* range over them (joinCommand has two).

\* range s.Clients
RangeClients(ord) == ord.top

\* range c.Channels
RangeChannels(ord, c) ==
    IF c \in DOMAIN ord.each THEN ord.each[c].ch ELSE <<>>

\* range channel.Members, run for client c
RangeMembers(ord, c, name) ==
    IF c \in DOMAIN ord.each /\ name \in DOMAIN ord.each[c].cl
    THEN ord.each[c].cl[name] ELSE <<>>

\* The second range over channel.Members in joinCommand.
RangeMembers2(ord, c, name) ==
    IF c \in DOMAIN ord.each /\ name \in DOMAIN ord.each[c].cl2
    THEN ord.each[c].cl2[name] ELSE <<>>

\* channel.Members for the Channel a client's Channels map points to.
MembersOf(W, name) ==
    IF name \in DOMAIN W.Channels THEN W.Channels[name] ELSE {}

\* ------------------------------------------------------------------------
\* Sending.

\* Client.nickUhost
nickUhost(W, c) ==
    W.client[c].Nick \o "!~" \o W.client[c].User \o "@" \o IPOf(c)

\* to.WriteChan <- msg. A send on a closed channel panics.
Enqueue(W, to, msg) ==
    IF W.client[to].WriteChanClosed
    THEN [W EXCEPT !.panicked = "send on closed channel"]
    ELSE [W EXCEPT !.sent = Append(@, msg), !.at = Append(@, Tracked(W))]

isNumeric(command) ==
    \A i \in 1..Len(command) : IsDigitByte(Ord(CharAt(command, i)))

\* Server.messageClient: a message from the server; a numeric gets the
\* client's nick (or *) as its first parameter.
Server_messageClient(W, c, command, params) ==
    LET nick == IF Len(W.client[c].Nick) > 0 THEN W.client[c].Nick ELSE "*"
        ps == IF isNumeric(command) THEN <<nick>> \o params ELSE params
    IN  Enqueue(W, c, [To |-> c, Prefix |-> ServerName, Command |-> command,
                       Params |-> ps])

\* Client.messageClient: a message to client `to` that appears to come from c.
Client_messageClient(W, c, to, command, params) ==
    Enqueue(W, to, [To |-> to, Prefix |-> nickUhost(W, c), Command |-> command,
                    Params |-> params])

\* TellOnce without the toldClients map.
RECURSIVE TellOnce_again(_, _, _, _, _, _)
TellOnce_again(W, told, c, members, command, params) ==
    IF members = <<>> THEN [W |-> W, told |-> told]
    ELSE TellOnce_again(Client_messageClient(W, c, Head(members), command, params),
                        told \cup {Head(members)}, c, Tail(members), command, params)

\* The inner loops of nickCommand and Client.quit: tell each of members,
\* in order, unless already told.
RECURSIVE TellOnce(_, _, _, _, _, _)
TellOnce(W, told, c, members, command, params) ==
    IF members = <<>> THEN [W |-> W, told |-> told]
    ELSE IF Head(members) \in told
    THEN TellOnce(W, told, c, Tail(members), command, params)
    ELSE TellOnce(Client_messageClient(W, c, Head(members), command, params),
                  told \cup {Head(members)}, c, Tail(members), command, params)

\* A loop that tells every one of members: PART, JOIN and PRIVMSG.
RECURSIVE TellAll(_, _, _, _, _)
TellAll(W, c, members, command, params) ==
    IF members = <<>> THEN W
    ELSE TellAll(Client_messageClient(W, c, Head(members), command, params),
                 c, Tail(members), command, params)

\* ------------------------------------------------------------------------
\* NICK.

\* The outer loop of nickCommand over c.Channels.
RECURSIVE nickInform(_, _, _, _, _, _)
nickInform(W, told, c, channels, nick, ord) ==
    IF channels = <<>> THEN [W |-> W, told |-> told]
    ELSE LET r == TellOnce(W, told, c, InOrder(MembersOf(W, Head(channels)),
                                   RangeMembers(ord, c, Head(channels))),
                           "NICK", <<nick>>)
         IN  nickInform(r.W, r.told, c, Tail(channels), nick, ord)

\* releaseOldNick that leaves the old nick in the index.
releaseOldNick_keep(W, oldNick) == W

\* Free the old nick (if there is one).
releaseOldNick(W, oldNick) ==
    IF Len(oldNick) > 0
    THEN [W EXCEPT !.Nicks = MapDelete(@, canonicalizeNick(oldNick))]
    ELSE W

\* nickTell run after c.Nick is set.
nickTell_renamedFirst(W, c, nick, ord) ==
    LET Wn == [W EXCEPT !.client[c].Nick = nick]
        r  == nickInform(Wn, {}, c, InOrder(Wn.client[c].Channels, RangeChannels(ord, c)), nick, ord)
    IN
    IF ~Wn.client[c].Registered THEN W
    ELSE IF c \in r.told THEN r.W
    ELSE Client_messageClient(r.W, c, c, "NICK", <<nick>>)

\* Inform the clients in the channels of a registered client c of its new
\* nick, each once, and c itself if it is on no channel.
nickTell(W, c, nick, ord) ==
    LET r == nickInform(W, {}, c, InOrder(W.client[c].Channels, RangeChannels(ord, c)), nick, ord) IN
    IF ~W.client[c].Registered THEN W
    ELSE IF c \in r.told THEN r.W
    ELSE Client_messageClient(r.W, c, c, "NICK", <<nick>>)

\* nickCommand that lets a client ask for the nick it has.
nickCommand_ownAgain(W, c, m, ord) ==
    IF Len(m.Params) = 0
    THEN Server_messageClient(W, c, "431", <<"No nickname given">>)
    ELSE
    LET nick == m.Params[1] IN
    IF ~isValidNick(nick)
    THEN Server_messageClient(W, c, "432", <<nick, "Erroneous nickname">>)
    ELSE
    LET nickCanon == canonicalizeNick(nick) IN
    IF nickCanon \in DOMAIN W.Nicks /\ W.Nicks[nickCanon] # c
    THEN Server_messageClient(W, c, "432", <<nick, "Nickname is already in use">>)
    ELSE
    LET oldNick == W.client[c].Nick
        W1 == [W EXCEPT !.Nicks = MapPut(@, nickCanon, c)]
        W2 == releaseOldNick(W1, oldNick)
        W3 == nickTell(W2, c, nick, ord)
    IN  [W3 EXCEPT !.client[c].Nick = nick]

\* Server.nickCommand
nickCommand(W, c, m, ord) ==
    IF Len(m.Params) = 0
    THEN Server_messageClient(W, c, "431", <<"No nickname given">>)
    ELSE
    LET nick == m.Params[1] IN
    IF ~isValidNick(nick)
    THEN Server_messageClient(W, c, "432", <<nick, "Erroneous nickname">>)
    ELSE
    LET nickCanon == canonicalizeNick(nick) IN
    IF nickCanon \in DOMAIN W.Nicks
    THEN Server_messageClient(W, c, "432", <<nick, "Nickname is already in use">>)
    ELSE
    LET oldNick == W.client[c].Nick
        W1 == [W EXCEPT !.Nicks = MapPut(@, nickCanon, c)]
        W2 == releaseOldNick(W1, oldNick)
        W3 == nickTell(W2, c, nick, ord)
    IN  [W3 EXCEPT !.client[c].Nick = nick]

\* ------------------------------------------------------------------------
\* LUSERS, MOTD, USER.

lusersCommand(W, c) ==
    LET nNicks == Cardinality(DOMAIN W.Nicks)
        numUnknown == Cardinality(W.Clients) - nNicks
        nChannels == Cardinality(DOMAIN W.Channels)
        W1 == Server_messageClient(W, c, "251",
                <<"There are " \o Itoa(nNicks) \o " users and 0 services on 0 servers.">>)
        W2 == IF numUnknown > 0
              THEN Server_messageClient(W1, c, "253",
                     <<Itoa(numUnknown), "unknown connection(s)">>)
              ELSE W1
        W3 == IF nChannels > 0
              THEN Server_messageClient(W2, c, "254", <<Itoa(nChannels), "channels formed">>)
              ELSE W2
    IN  Server_messageClient(W3, c, "255",
          <<"I have " \o Itoa(nNicks) \o " clients and 0 servers">>)

motdCommand(W, c) ==
    LET W1 == Server_messageClient(W, c, "375",
                <<"- " \o ServerName \o " Message of the day - ">>)
        W2 == Server_messageClient(W1, c, "372", <<"- " \o Motd>>)
    IN  Server_messageClient(W2, c, "376", <<"End of MOTD command">>)

\* userWelcome with the MOTD before the LUSERS block.
userWelcome_motdFirst(W, c) ==
    LET W3 == Server_messageClient(W, c, "001",
                <<"Welcome to the Internet Relay Network " \o nickUhost(W, c)>>)
        W4 == Server_messageClient(W3, c, "002",
                <<"Your host is " \o ServerName \o ", running version " \o ServerVersion>>)
        W5 == Server_messageClient(W4, c, "003",
                <<"This server was created " \o CreatedDate>>)
        W6 == Server_messageClient(W5, c, "004", <<ServerName, ServerVersion, "o", "n">>)
    IN  lusersCommand(motdCommand(W6, c), c)

\* Server.userCommand, the messages upon registration
userWelcome(W, c) ==
    LET W3 == Server_messageClient(W, c, "001",
                <<"Welcome to the Internet Relay Network " \o nickUhost(W, c)>>)
        W4 == Server_messageClient(W3, c, "002",
                <<"Your host is " \o ServerName \o ", running version " \o ServerVersion>>)
        W5 == Server_messageClient(W4, c, "003",
                <<"This server was created " \o CreatedDate>>)
        W6 == Server_messageClient(W5, c, "004", <<ServerName, ServerVersion, "o", "n">>)
    IN  motdCommand(lusersCommand(W6, c), c)

\* Server.userCommand, from the check of the parameters on
userParams(W, c, m) ==
    IF Len(m.Params) # 4
    THEN Server_messageClient(W, c, "461", <<m.Command, "Not enough parameters">>)
    ELSE
    LET user == m.Params[1] IN
    IF ~isValidUser(user)
    THEN Server_messageClient(W, c, "ERROR", <<"Invalid username">>)
    ELSE
    LET W1 == [W EXCEPT !.client[c].User = user] IN
    IF Len(m.Params[4]) > maxRealNameLength
    THEN Server_messageClient(W1, c, "ERROR", <<"Invalid realname">>)
    ELSE
    userWelcome([W1 EXCEPT !.client[c].RealName = m.Params[4],
                           !.client[c].Registered = TRUE], c)

\* userCommand without the check that NICK came first.
userCommand_noNick(W, c, m) ==
    IF W.client[c].Registered
    THEN Server_messageClient(W, c, "462", <<"Unauthorized command (already registered)">>)
    ELSE userParams(W, c, m)

\* Server.userCommand
userCommand(W, c, m) ==
    IF W.client[c].Registered
    THEN Server_messageClient(W, c, "462", <<"Unauthorized command (already registered)">>)
    ELSE IF Len(W.client[c].Nick) = 0
    THEN Server_messageClient(W, c, "ERROR", <<"Please send NICK first">>)
    ELSE userParams(W, c, m)

\* ------------------------------------------------------------------------
\* PART and JOIN.

\* partTell that leaves the parting client out.
partTell_notSelf(W, c, channelName, message, ord) ==
    TellAll(W, c, InOrder(W.Channels[channelName] \ {c}, RangeMembers(ord, c, channelName)), "PART",
            IF Len(message) > 0 THEN <<channelName, message>> ELSE <<channelName>>)

\* Tell everyone on the channel (including the client) about the part.
partTell(W, c, channelName, message, ord) ==
    TellAll(W, c, InOrder(W.Channels[channelName], RangeMembers(ord, c, channelName)), "PART",
            IF Len(message) > 0 THEN <<channelName, message>> ELSE <<channelName>>)

\* partLeave without delete(c.Channels, channel.Name).
partLeave_keepsOn(W, c, channelName) ==
    LET W1 == [W EXCEPT !.Channels[channelName] = @ \ {c}]
    IN  IF W1.Channels[channelName] = {}
        THEN [W1 EXCEPT !.Channels = MapDelete(@, channelName)]
        ELSE W1

\* partLeave without the delete of a channel that has no members left.
partLeave_keepsEmpty(W, c, channelName) ==
    [W EXCEPT !.Channels[channelName] = @ \ {c},
              !.client[c].Channels = @ \ {channelName}]

\* Remove the client from the channel; drop the channel when it was the
\* last member.
partLeave(W, c, channelName) ==
    LET W1 == [W EXCEPT !.Channels[channelName] = @ \ {c},
                        !.client[c].Channels = @ \ {channelName}]
    IN  IF W1.Channels[channelName] = {}
        THEN [W1 EXCEPT !.Channels = MapDelete(@, channelName)]
        ELSE W1

\* Client.part
part(W, c, name, message, ord) ==
    LET channelName == canonicalizeChannel(name) IN
    IF ~isValidChannel(channelName)
    THEN Server_messageClient(W, c, "403", <<channelName, "Invalid channel name">>)
    ELSE IF channelName \notin DOMAIN W.Channels
    THEN Server_messageClient(W, c, "403", <<channelName, "No such channel">>)
    ELSE IF channelName \notin W.client[c].Channels
    THEN Server_messageClient(W, c, "403", <<channelName, "You are not on that channel">>)
    ELSE partLeave(partTell(W, c, channelName, message, ord), c, channelName)

\* JOIN 0: the loop of joinCommand that parts every channel of the client.
RECURSIVE partEach(_, _, _, _)
partEach(W, c, channels, ord) ==
    IF channels = <<>> THEN W
    ELSE partEach(part(W, c, Head(channels), "", ord), c, Tail(channels), ord)

\* The RPL_NAMREPLY loop of joinCommand.
RECURSIVE namesReply(_, _, _, _)
namesReply(W, c, channelName, members) ==
    IF members = <<>> THEN W
    ELSE namesReply(
           Server_messageClient(W, c, "353",
             <<"=", channelName, ":" \o W.client[Head(members)].Nick>>),
           c, channelName, Tail(members))

\* Look up or create the channel and add the client to it.
joinEnter(W, c, channelName) ==
    LET W1 == IF channelName \in DOMAIN W.Channels THEN W
              ELSE [W EXCEPT !.Channels = MapPut(@, channelName, {})]
    IN  [W1 EXCEPT !.Channels[channelName] = @ \cup {c},
                   !.client[c].Channels = @ \cup {channelName}]

\* joinTell that tells the other members before the joiner.
joinTell_othersFirst(W, c, channelName, ord) ==
    LET W0 == TellAll(W, c, InOrder(W.Channels[channelName] \ {c}, RangeMembers2(ord, c, channelName)),
                      "JOIN", <<channelName>>)
        W1 == Client_messageClient(W0, c, c, "JOIN", <<channelName>>)
        W2 == namesReply(W1, c, channelName, InOrder(W.Channels[channelName], RangeMembers(ord, c, channelName)))
    IN  Server_messageClient(W2, c, "366", <<channelName, "End of NAMES list">>)

\* What joinCommand sends once the client is on the channel: JOIN to the
\* client, the names and their end, then JOIN to the other members.
joinTell(W, c, channelName, ord) ==
    LET W1 == Client_messageClient(W, c, c, "JOIN", <<channelName>>)
        W2 == namesReply(W1, c, channelName, InOrder(W.Channels[channelName], RangeMembers(ord, c, channelName)))
        W3 == Server_messageClient(W2, c, "366", <<channelName, "End of NAMES list">>)
    IN  TellAll(W3, c, InOrder(W.Channels[channelName] \ {c}, RangeMembers2(ord, c, channelName)),
                "JOIN", <<channelName>>)

joinCommand(W, c, m, ord) ==
    IF Len(m.Params) = 0
    THEN Server_messageClient(W, c, "461", <<"JOIN", "Not enough parameters">>)
    ELSE IF Len(m.Params) = 1 /\ m.Params[1] = "0"
    THEN partEach(W, c, InOrder(W.client[c].Channels, RangeChannels(ord, c)), ord)
    ELSE
    LET channelName == canonicalizeChannel(m.Params[1]) IN
    IF ~isValidChannel(channelName)
    THEN Server_messageClient(W, c, "403", <<channelName, "Invalid channel name">>)
    ELSE IF channelName \in W.client[c].Channels
    THEN Server_messageClient(W, c, "ERROR", <<"You are on that channel">>)
    ELSE joinTell(joinEnter(W, c, channelName), c, channelName, ord)

partCommand(W, c, m, ord) ==
    IF Len(m.Params) = 0
    THEN Server_messageClient(W, c, "461", <<"PART", "Not enough parameters">>)
    ELSE part(W, c, m.Params[1], IF Len(m.Params) >= 2 THEN m.Params[2] ELSE "", ord)

\* ------------------------------------------------------------------------
\* PRIVMSG.

\* privmsgChannel that sends to the client itself too.
privmsgChannel_echo(W, c, channelName, msg, ord) ==
    TellAll(W, c, InOrder(W.Channels[channelName], RangeMembers(ord, c, channelName)),
            "PRIVMSG", <<channelName, msg>>)

\* A PRIVMSG to a channel that goes to every client of the index.
privmsgChannel_everyone(W, c, channelName, msg, ord) ==
    TellAll(W, c, InOrder(W.Clients \ {c}, RangeMembers(ord, c, channelName)),
            "PRIVMSG", <<channelName, msg>>)

\* Send to all members of the channel, except the client itself.
privmsgChannel(W, c, channelName, msg, ord) ==
    TellAll(W, c, InOrder(W.Channels[channelName] \ {c}, RangeMembers(ord, c, channelName)),
            "PRIVMSG", <<channelName, msg>>)

privmsgCommand(W, c, m, ord) ==
    IF Len(m.Params) = 0
    THEN Server_messageClient(W, c, "411", <<"No recipient given (PRIVMSG)">>)
    ELSE IF Len(m.Params) = 1
    THEN Server_messageClient(W, c, "412", <<"No text to send">>)
    ELSE
    LET target == m.Params[1]
        msgLen == Len(":") + Len(nickUhost(W, c)) + Len(" PRIVMSG ") + Len(target)
                  + Len(" ") + Len(":") + Len(m.Params[2]) + 2
        trimCount == msgLen - MaxLineLength
    IN
    IF msgLen > MaxLineLength /\ trimCount > Len(m.Params[2])
    THEN [W EXCEPT !.panicked = "slice bounds out of range"]
    ELSE IF Len(target) = 0
    THEN [W EXCEPT !.panicked = "index out of range"]
    ELSE
    LET msg == IF msgLen > MaxLineLength
               THEN SubSeq(m.Params[2], 1, Len(m.Params[2]) - trimCount)
               ELSE m.Params[2]
    IN
    IF CharAt(target, 1) = "#"
    THEN
        LET channelName == canonicalizeChannel(target) IN
        IF ~isValidChannel(channelName)
        THEN Server_messageClient(W, c, "404", <<channelName, "Cannot send to channel">>)
        ELSE IF channelName \notin DOMAIN W.Channels
        THEN Server_messageClient(W, c, "403", <<channelName, "No such channel">>)
        ELSE IF channelName \notin W.client[c].Channels
        THEN Server_messageClient(W, c, "404", <<channelName, "Cannot send to channel">>)
        ELSE privmsgChannel(W, c, channelName, msg, ord)
    ELSE
        LET nickName == canonicalizeNick(target) IN
        IF ~isValidNick(nickName)
        THEN Server_messageClient(W, c, "401", <<nickName, "No such nick/channel">>)
        ELSE IF nickName \notin DOMAIN W.Nicks
        THEN Server_messageClient(W, c, "401", <<nickName, "No such nick/channel">>)
        ELSE Client_messageClient(W, c, W.Nicks[nickName], "PRIVMSG", <<nickName, msg>>)

\* ------------------------------------------------------------------------
\* Quitting.

\* Client.quit that leaves c among the members of its channels.
quitLeave_stays(W, c, name) == W

\* quitLeave without the delete of a channel that has no members left.
quitLeave_keepsEmpty(W, c, name) ==
    IF name \in DOMAIN W.Channels
    THEN [W EXCEPT !.Channels[name] = @ \ {c}]
    ELSE W

\* Client.quit removes c from the members of a channel and drops the channel
\* when it is empty.
quitLeave(W, c, name) ==
    LET W1 == IF name \in DOMAIN W.Channels
              THEN [W EXCEPT !.Channels[name] = @ \ {c}]
              ELSE W
    IN  IF name \in DOMAIN W1.Channels /\ W1.Channels[name] = {}
        THEN [W1 EXCEPT !.Channels = MapDelete(@, name)]
        ELSE W1

\* Client.quit without delete(c.Server.Clients, c.ID).
removeClient_skip(W, c) == W

\* delete(c.Server.Clients, c.ID)
removeClient(W, c) == [W EXCEPT !.Clients = @ \ {c}]

\* The loop of Client.quit over c.Channels: tell the members not yet told,
\* remove c from the channel, drop the channel when it is empty.
RECURSIVE quitChannels(_, _, _, _, _, _)
quitChannels(W, told, c, channels, msg, ord) ==
    IF channels = <<>> THEN [W |-> W, told |-> told]
    ELSE
    LET name == Head(channels)
        r  == TellOnce(W, told, c, InOrder(MembersOf(W, name), RangeMembers(ord, c, name)), "QUIT", <<msg>>)
    IN  quitChannels(quitLeave(r.W, c, name), r.told, c, Tail(channels), msg, ord)

\* close(c.WriteChan). Closing a closed channel panics.
closeWriteChan(W, c) ==
    IF W.client[c].WriteChanClosed
    THEN [W EXCEPT !.panicked = "close of closed channel"]
    ELSE [W EXCEPT !.client[c].WriteChanClosed = TRUE]

\* Client.quit
quit(W, c, msg, ord) ==
    LET r  == quitChannels(W, {}, c, InOrder(W.client[c].Channels, RangeChannels(ord, c)), msg, ord)
        W1 == IF c \in r.told THEN r.W
              ELSE Client_messageClient(r.W, c, c, "QUIT", <<msg>>)
        W2 == IF W.client[c].Registered
              THEN [W1 EXCEPT !.Nicks = MapDelete(@, canonicalizeNick(W.client[c].Nick))]
              ELSE IF Len(W.client[c].Nick) > 0
              THEN [W EXCEPT !.Nicks = MapDelete(@, canonicalizeNick(W.client[c].Nick))]
              ELSE W
        W3 == Server_messageClient(W2, c, "ERROR", <<msg>>)
    IN  removeClient(closeWriteChan(W3, c), c)

quitCommand(W, c, m, ord) ==
    quit(W, c, IF Len(m.Params) > 0 THEN "Quit: " \o m.Params[1] ELSE "Quit:", ord)

\* The loop of Server.shutdown over s.Clients.
RECURSIVE quitEach(_, _, _, _)
quitEach(W, clients, msg, ord) ==
    IF clients = <<>> THEN W
    ELSE quitEach(quit(W, Head(clients), msg, ord), Tail(clients), msg, ord)

\* close(s.ShutdownChan)
closeShutdownChan(W) == [W EXCEPT !.shutdownClosed = TRUE]

\* s.Listener.Close(), with the state it found in signalled. (Closing a
\* listener again returns an error, which shutdown logs.)
closeListener(W) == [W EXCEPT !.listenerClosed = TRUE, !.signalled = <<Tracked(W)>>]

\* A shutdown that closes ShutdownChan and quits nobody.
shutdown_signalOnly(W, ord) ==
    IF W.shutdownClosed
    THEN [W EXCEPT !.panicked = "close of closed channel"]
    ELSE closeListener(closeShutdownChan(W))

\* A shutdown that leaves the Listener open.
shutdown_keepsListening(W, ord) ==
    IF W.shutdownClosed
    THEN [W EXCEPT !.panicked = "close of closed channel"]
    ELSE quitEach(closeShutdownChan(W), InOrder(W.Clients, RangeClients(ord)),
                  "Server shutting down", ord)

\* Server.shutdown. close(s.ShutdownChan) panics when it is closed already.
shutdown(W, ord) ==
    IF W.shutdownClosed
    THEN [W EXCEPT !.panicked = "close of closed channel"]
    ELSE quitEach(closeListener(closeShutdownChan(W)),
                  InOrder(W.Clients, RangeClients(ord)), "Server shutting down", ord)

dieCommand(W, c, m, ord) == shutdown(W, ord)

pingCommand(W, c, m) ==
    IF Len(m.Params) = 0
    THEN Server_messageClient(W, c, "409", <<"No origin specified">>)
    ELSE IF m.Params[1] # ServerName
    THEN Server_messageClient(W, c, "402", <<m.Params[1], "No such server">>)
    ELSE Server_messageClient(W, c, "PONG", <<m.Params[1]>>)

\* ------------------------------------------------------------------------
\* WHOIS, OPER, MODE, WHO.

\* now.Sub(t), in seconds.
Sub(t, u) == IF u = ZeroTime THEN MaxDuration ELSE t - u

\* Client.isOperator
isOperator(W, c) == "o" \in W.client[c].Modes

\* time.Now() when a handler reads the clock after sends, which can wait:
\* the time the handler started at, or a later one.
TimeNow(W, ord) == IF "clock" \in DOMAIN ord THEN ord.clock ELSE W.now

whoisCommand(W, c, m, ord) ==
    IF Len(m.Params) = 0
    THEN Server_messageClient(W, c, "431", <<"No nickname given">>)
    ELSE
    LET nick == m.Params[1]
        nickCanonical == canonicalizeNick(nick)
    IN
    IF nickCanonical \notin DOMAIN W.Nicks
    THEN Server_messageClient(W, c, "401", <<nick, "No such nick/channel">>)
    ELSE
    LET t  == W.Nicks[nickCanonical]
        tn == W.client[t].Nick
        W1 == Server_messageClient(W, c, "311",
                <<tn, W.client[t].User, IPOf(t), "*", W.client[t].RealName>>)
        W2 == Server_messageClient(W1, c, "312", <<tn, ServerName, ServerInfo>>)
        W3 == IF isOperator(W, t)
              THEN Server_messageClient(W2, c, "313", <<tn, "is an IRC operator">>)
              ELSE W2
        W4 == Server_messageClient(W3, c, "317",
                <<tn, Itoa(Sub(TimeNow(W, ord), W.client[t].LastActivityTime)),
                  "seconds idle">>)
    IN  Server_messageClient(W4, c, "318", <<tn, "End of WHOIS list">>)

\* operCommand that does not look at the name and the password.
operCommand_anyPassword(W, c, m) ==
    IF Len(m.Params) < 2
    THEN Server_messageClient(W, c, "461", <<"OPER", "Not enough parameters">>)
    ELSE IF isOperator(W, c)
    THEN Server_messageClient(W, c, "ERROR", <<"You are already an operator.">>)
    ELSE
    LET W1 == [W EXCEPT !.client[c].Modes = @ \cup {"o"}]
        W2 == Client_messageClient(W1, c, c, "MODE", <<W1.client[c].Nick, "+o">>)
    IN  Server_messageClient(W2, c, "381", <<"You are now an IRC operator">>)

\* Server.operCommand
operCommand(W, c, m) ==
    IF Len(m.Params) < 2
    THEN Server_messageClient(W, c, "461", <<"OPER", "Not enough parameters">>)
    ELSE IF isOperator(W, c)
    THEN Server_messageClient(W, c, "ERROR", <<"You are already an operator.">>)
    ELSE IF m.Params[1] \notin DOMAIN Opers \/ Opers[m.Params[1]] # m.Params[2]
    THEN Server_messageClient(W, c, "464", <<"Password incorrect">>)
    ELSE
    LET W1 == [W EXCEPT !.client[c].Modes = @ \cup {"o"}]
        W2 == Client_messageClient(W1, c, c, "MODE", <<W1.client[c].Nick, "+o">>)
    IN  Server_messageClient(W2, c, "381", <<"You are now an IRC operator">>)

\* The loop of userModeCommand over the characters of modes, from the i-th
\* on, with the action (+, - or blank) the loop is in.
RECURSIVE userModeEach(_, _, _, _, _)
userModeEach(W, c, modes, i, action) ==
    IF i > Len(modes) THEN W
    ELSE
    LET char == CharAt(modes, i) IN
    IF char = "+" \/ char = "-" THEN userModeEach(W, c, modes, i + 1, char)
    ELSE IF action = " "
    THEN userModeEach(Server_messageClient(W, c, "ERROR", <<"Malformed MODE">>),
                      c, modes, i + 1, action)
    ELSE IF char = "i" \/ char = "w" \/ char = "s"
    THEN userModeEach(W, c, modes, i + 1, action)
    ELSE IF char # "o"
    THEN userModeEach(Server_messageClient(W, c, "501", <<"Unknown MODE flag">>),
                      c, modes, i + 1, action)
    ELSE IF action = "+" THEN userModeEach(W, c, modes, i + 1, action)
    ELSE IF ~isOperator(W, c) THEN userModeEach(W, c, modes, i + 1, action)
    ELSE
    LET W1 == [W EXCEPT !.client[c].Modes = @ \ {"o"}] IN
    userModeEach(Client_messageClient(W1, c, c, "MODE", <<"-o", W1.client[c].Nick>>),
                 c, modes, i + 1, action)

\* The only mode that is ever set is o, so the modes a 221 lists are + or +o.
userModeCommand(W, c, targetClient, modes) ==
    IF targetClient # c
    THEN Server_messageClient(W, c, "502", <<"Cannot change mode for other users">>)
    ELSE IF Len(modes) = 0
    THEN Server_messageClient(W, c, "221",
           <<"+" \o (IF isOperator(W, c) THEN "o" ELSE "")>>)
    ELSE userModeEach(W, c, modes, 1, " ")

channelModeCommand(W, c, channelName, modes) ==
    IF channelName \notin W.client[c].Channels
    THEN Server_messageClient(W, c, "442", <<channelName, "You're not on that channel">>)
    ELSE IF Len(modes) = 0
    THEN Server_messageClient(W, c, "324", <<channelName, "+n">>)
    ELSE IF modes = "b" \/ modes = "+b"
    THEN Server_messageClient(W, c, "368", <<channelName, "End of channel ban list">>)
    ELSE Server_messageClient(W, c, "482", <<channelName, "You're not channel operator">>)

modeCommand(W, c, m) ==
    IF Len(m.Params) < 1
    THEN Server_messageClient(W, c, "461", <<"MODE", "Not enough parameters">>)
    ELSE
    LET target == m.Params[1]
        modes == IF Len(m.Params) > 1 THEN m.Params[2] ELSE ""
    IN
    IF canonicalizeNick(target) \in DOMAIN W.Nicks
    THEN userModeCommand(W, c, W.Nicks[canonicalizeNick(target)], modes)
    ELSE IF canonicalizeChannel(target) \in DOMAIN W.Channels
    THEN channelModeCommand(W, c, canonicalizeChannel(target), modes)
    ELSE Server_messageClient(W, c, "403", <<target, "No such channel">>)

\* The RPL_WHOREPLY loop of whoCommand.
RECURSIVE whoReply(_, _, _, _)
whoReply(W, c, channelName, members) ==
    IF members = <<>> THEN W
    ELSE
    LET member == Head(members) IN
    whoReply(
      Server_messageClient(W, c, "352",
        <<channelName, W.client[member].User, IPOf(member), ServerName,
          W.client[member].Nick,
          IF isOperator(W, member) THEN "H*" ELSE "H",
          "0 " \o W.client[member].RealName>>),
      c, channelName, Tail(members))

whoCommand(W, c, m, ord) ==
    IF Len(m.Params) < 1
    THEN Server_messageClient(W, c, "461", <<m.Command, "Not enough parameters">>)
    ELSE
    LET channelName == canonicalizeChannel(m.Params[1]) IN
    IF channelName \notin DOMAIN W.Channels
    THEN Server_messageClient(W, c, "403", <<m.Params[1], "Invalid channel name">>)
    ELSE IF channelName \notin W.client[c].Channels
    THEN Server_messageClient(W, c, "442", <<channelName, "You're not on that channel">>)
    ELSE
    LET W1 == whoReply(W, c, channelName, InOrder(W.Channels[channelName], RangeMembers(ord, c, channelName)))
    IN  Server_messageClient(W1, c, "315", <<channelName, "End of WHO list">>)

\* ------------------------------------------------------------------------
\* The dispatcher.

\* Server.handleMessage, the commands below the registration gate
registeredCommand(W1, c, m, ord) ==
    IF m.Command = "JOIN" THEN joinCommand(W1, c, m, ord)
    ELSE IF m.Command = "PART" THEN partCommand(W1, c, m, ord)
    ELSE IF m.Command = "PRIVMSG" THEN privmsgCommand(W1, c, m, ord)
    ELSE IF m.Command = "LUSERS" THEN lusersCommand(W1, c)
    ELSE IF m.Command = "MOTD" THEN motdCommand(W1, c)
    ELSE IF m.Command = "QUIT" THEN quitCommand(W1, c, m, ord)
    ELSE IF m.Command = "PONG" THEN W1
    ELSE IF m.Command = "PING" THEN pingCommand(W1, c, m)
    ELSE IF m.Command = "DIE" THEN dieCommand(W1, c, m, ord)
    ELSE IF m.Command = "WHOIS" THEN whoisCommand(W1, c, m, ord)
    ELSE IF m.Command = "OPER" THEN operCommand(W1, c, m)
    ELSE IF m.Command = "MODE" THEN modeCommand(W1, c, m)
    ELSE IF m.Command = "WHO" THEN whoCommand(W1, c, m, ord)
    ELSE Server_messageClient(W1, c, "421", <<m.Command, "Unknown command">>)

\* A dispatcher that lets QUIT and PONG through before registration.
handleMessage_quitUngated(W, c, m, ord) ==
    LET W1 == [W EXCEPT !.client[c].LastActivityTime = W.now] IN
    IF m.Prefix # "" THEN Server_messageClient(W1, c, "ERROR", <<"Do not send a prefix">>)
    ELSE IF m.Command = "CAP" THEN W1
    ELSE IF m.Command = "NICK" THEN nickCommand(W1, c, m, ord)
    ELSE IF m.Command = "USER" THEN userCommand(W1, c, m)
    ELSE IF m.Command = "QUIT" THEN quitCommand(W1, c, m, ord)
    ELSE IF m.Command = "PONG" THEN W1
    ELSE IF ~W1.client[c].Registered
    THEN Server_messageClient(W1, c, "451", <<"You have not registered.">>)
    ELSE registeredCommand(W1, c, m, ord)

\* Server.handleMessage
handleMessage(W, c, m, ord) ==
    LET W1 == [W EXCEPT !.client[c].LastActivityTime = W.now] IN
    IF m.Prefix # "" THEN Server_messageClient(W1, c, "ERROR", <<"Do not send a prefix">>)
    ELSE IF m.Command = "CAP" THEN W1
    ELSE IF m.Command = "NICK" THEN nickCommand(W1, c, m, ord)
    ELSE IF m.Command = "USER" THEN userCommand(W1, c, m)
    ELSE IF ~W1.client[c].Registered
    THEN Server_messageClient(W1, c, "451", <<"You have not registered.">>)
    ELSE registeredCommand(W1, c, m, ord)

\* ------------------------------------------------------------------------
\* The liveness sweep.

\* checkAndPingClient that pings a registered client before it asks
\* whether the client is dead.
checkAndPingClient_pingFirst(W, c, ord) ==
    LET timeIdle == Sub(W.now, W.client[c].LastActivityTime)
        timeSincePing == Sub(W.now, W.client[c].LastPingTime)
    IN
    IF W.client[c].Registered
    THEN
        IF timeIdle < W.PingTime THEN W
        ELSE IF timeSincePing >= W.PingTime
        THEN [Server_messageClient(W, c, "PING", <<ServerName>>)
                EXCEPT !.client[c].LastPingTime = W.now]
        ELSE IF timeIdle > W.DeadTime
        THEN quit(W, c, "Ping timeout: " \o Itoa(timeIdle) \o " seconds", ord)
        ELSE W
    ELSE
        IF timeIdle > W.DeadTime THEN quit(W, c, "Idle too long.", ord) ELSE W

\* The body of the loop with a PING that leaves LastPingTime as it was.
checkAndPingClient_noStamp(W, c, ord) ==
    LET timeIdle == Sub(W.now, W.client[c].LastActivityTime)
        timeSincePing == Sub(W.now, W.client[c].LastPingTime)
    IN
    IF W.client[c].Registered
    THEN
        IF timeIdle < W.PingTime THEN W
        ELSE IF timeIdle > W.DeadTime
        THEN quit(W, c, "Ping timeout: " \o Itoa(timeIdle) \o " seconds", ord)
        ELSE IF timeSincePing < W.PingTime THEN W
        ELSE Server_messageClient(W, c, "PING", <<ServerName>>)
    ELSE
        IF timeIdle > W.DeadTime THEN quit(W, c, "Idle too long.", ord) ELSE W

\* The body of the loop of checkAndPingClients for one client.
checkAndPingClient(W, c, ord) ==
    LET timeIdle == Sub(W.now, W.client[c].LastActivityTime)
        timeSincePing == Sub(W.now, W.client[c].LastPingTime)
    IN
    IF W.client[c].Registered
    THEN
        IF timeIdle < W.PingTime THEN W
        ELSE IF timeIdle > W.DeadTime
        THEN quit(W, c, "Ping timeout: " \o Itoa(timeIdle) \o " seconds", ord)
        ELSE IF timeSincePing < W.PingTime THEN W
        ELSE [Server_messageClient(W, c, "PING", <<ServerName>>)
                EXCEPT !.client[c].LastPingTime = W.now]
    ELSE
        IF timeIdle > W.DeadTime THEN quit(W, c, "Idle too long.", ord) ELSE W

RECURSIVE checkEach(_, _, _)
checkEach(W, clients, ord) ==
    IF clients = <<>> THEN W
    ELSE checkEach(checkAndPingClient(W, Head(clients), ord), Tail(clients), ord)

\* Server.checkAndPingClients
checkAndPingClients(W, ord) == checkEach(W, InOrder(W.Clients, RangeClients(ord)), ord)

\* ------------------------------------------------------------------------
\* The inputs: what clients send.

Msg(command, params) == [Prefix |-> "", Command |-> command, Params |-> params]

\* The nicks client c asks for: its own, and one that a lower id asks for
\* too (the last client asks for it in upper case, which is not valid).
NickInputs(c) ==
    IF c = 0 THEN {"a", "d"} ELSE IF c = 1 THEN {"b", "a"} ELSE {"c", "B"}

ChannelInputs == {"#x", "#Y", "x"}

MessageInputs(c) ==
    {Msg("NICK", <<n>>) : n \in NickInputs(c)}
    \cup {Msg("USER", <<"u", "0", "*", "r">>)}
    \cup {Msg("JOIN", <<ch>>) : ch \in ChannelInputs \cup {"0"}}
    \cup {Msg("PART", <<ch>>) : ch \in ChannelInputs}
    \cup {Msg("PRIVMSG", <<t, "hi">>) : t \in {"#x", "a"}}
    \cup {Msg("QUIT", <<"bye">>), Msg("DIE", <<>>)}

\* An order for the handlers that range over no map.
NoOrder == [top |-> <<>>, each |-> EmptyMap]

\* The functions that take each key k of T to an element of the set T[k].
RECURSIVE Choices(_)
Choices(T) ==
    IF DOMAIN T = {} THEN {EmptyMap}
    ELSE LET k == CHOOSE x \in DOMAIN T : TRUE
             rest == [x \in DOMAIN T \ {k} |-> T[x]]
         IN  {(k :> v) @@ f : v \in T[k], f \in Choices(rest)}

\* The elements of sequence s that come before x.
Earlier(s, x) == {s[j] : j \in {i \in 1..Len(s) : \A k \in 1..i : s[k] # x}}

\* The members of the channels of client c.
Peers(W, c) == UNION {MembersOf(W, name) : name \in W.client[c].Channels}

\* The orders of a loop over the channels of c that tells every member of
\* every channel (JOIN 0): an order of the channels, and for each channel
\* an order of its members.
AllOrders(W, c) ==
    UNION {{[ch |-> hs, cl |-> f, cl2 |-> EmptyMap] :
              f \in Choices([name \in W.client[c].Channels |-> Perms(MembersOf(W, name))])} :
           hs \in Perms(W.client[c].Channels)}

\* The orders of a loop over the channels of c that tells each client once
\* (nickCommand, Client.quit), when the clients of gone have left: an
\* order of the channels, and for each channel an order of those of its
\* members that are on no channel visited before it (the loop skips the
\* others wherever they come).
OnceOrders(W, c, gone) ==
    UNION {{[ch |-> hs, cl |-> f, cl2 |-> EmptyMap] :
              f \in Choices([name \in W.client[c].Channels |->
                               Perms((MembersOf(W, name) \ gone)
                                     \ UNION {MembersOf(W, h) : h \in Earlier(hs, name)})])} :
           hs \in Perms(W.client[c].Channels)}

\* The orders of the two loops of a handler of c over the members of one
\* channel.
ChannelOrders(W, c, name) ==
    {[ch |-> <<>>, cl |-> name :> a, cl2 |-> name :> b] :
        a \in Perms(MembersOf(W, name) \cup {c}), b \in Perms(MembersOf(W, name) \ {c})}

\* The orders of a handler that ranges for client c only.
OrdersOver(c, os) == {[top |-> <<>>, each |-> c :> o] : o \in os}

\* The orders of a loop over Server.Clients in which the clients of
\* quitters quit: an order of the clients and, for each quitter, the orders
\* of its Client.quit once the quitters before it have left.
OrdersWhen(W, quitters) ==
    UNION {{[top |-> t, each |-> e] :
              e \in Choices([c \in quitters |->
                               OnceOrders(W, c, quitters \cap Earlier(t, c))])} :
           t \in Perms(W.Clients)}

\* The clients checkAndPingClients quits.
Quitters(W) == {c \in W.Clients : c \notin checkAndPingClient(W, c, NoOrder).Clients}

\* The orders of Server.shutdown, which quits every client, and those of
\* checkAndPingClients.
Orders(W) == OrdersWhen(W, W.Clients) \cup OrdersWhen(W, Quitters(W))

\* The times time.Now() can return to a handler that started at W.now and
\* has waited at sends since.
Clocks(W) == W.now..MaxTime

\* What makes a difference to the handler of message m from c: the orders
\* of the maps it ranges over, and for WHOIS the time it reads after its
\* first sends.
OrdersFor(W, c, m) ==
    IF m.Command = "DIE" THEN OrdersWhen(W, W.Clients)
    ELSE IF m.Command = "WHOIS"
    THEN {[top |-> <<>>, each |-> EmptyMap, clock |-> t] : t \in Clocks(W)}
    ELSE IF m.Command \in {"NICK", "QUIT"} \/ Len(m.Params) = 0
    THEN OrdersOver(c, OnceOrders(W, c, {}))
    ELSE IF m.Command = "JOIN" /\ m.Params[1] = "0"
    THEN OrdersOver(c, AllOrders(W, c))
    ELSE OrdersOver(c, ChannelOrders(W, c, canonicalizeChannel(m.Params[1])))

\* ------------------------------------------------------------------------
\* The event loop of Server.start: one action per case of its select.

\* The process runs and the event loop is in MessageLoop.
Looping == running /\ panicked = ""

\* The event loop is at its select: in no handler.
Alive == Looping /\ loopPc = "select"

\* Sequence s without the elements that equal the one before them.
RECURSIVE Squeeze(_)
Squeeze(s) ==
    IF Len(s) < 2 THEN s
    ELSE IF s[1] = s[2] THEN Squeeze(Tail(s))
    ELSE <<s[1]>> \o Squeeze(Tail(s))

\* The states the handler that makes world W2 goes through: those of its
\* sends, where it waits for room on the WriteChan (sends that follow one
\* another with no write between them wait in one state), and the state it
\* ends in.
Waits(W2) == Squeeze(W2.at) \o <<Tracked(W2)>>

\* The event loop runs a handler that makes world W2, up to the first send
\* of the handler; the states it has yet to go through stay in pending.
Begin(W2) ==
    /\ Become(Waits(W2)[1])
    /\ pending' = Tail(Waits(W2))
    /\ loopPc' = IF Tail(Waits(W2)) = <<>> THEN "select" ELSE "send"

\* The ping and dead periods the configuration may give.
Periods == {<<1, 0>>, <<1, 1>>}

\* No message.
NoMessage == [Prefix |-> "", Command |-> "", Params |-> <<>>]

\* A goroutine that is at position pc and holds message held.
At(pc, held) == [pc |-> pc, held |-> held]

\* The reader or writer of a connection that has not been accepted.
NotStarted == At("none", NoMessage)

\* The server before start, with one of the given ping and dead periods.
InitWith(periods) ==
    /\ Clients = {}
    /\ Nicks = EmptyMap
    /\ Channels = EmptyMap
    /\ client = [id \in ClientIds |-> NewClientObject]
    /\ nextID = 0
    /\ shutdownClosed = FALSE
    /\ listenerClosed = FALSE
    /\ running = TRUE
    /\ panicked = ""
    /\ now = 0
    /\ \E p \in periods : PingTime = p[1] /\ DeadTime = p[2]
    /\ acceptor = "check"
    /\ accID = 0
    /\ newClientChan = <<>>
    /\ newClientClosed = FALSE
    /\ messageServerChan = <<>>
    /\ deadClientChan = <<>>
    /\ alarmPc = "send"
    /\ fromAlarmClosed = FALSE
    /\ loopPc = "select"
    /\ pending = <<>>
    /\ reader = [id \in ClientIds |-> NotStarted]
    /\ writer = [id \in ClientIds |-> NotStarted]
    /\ WriteChan = [id \in ClientIds |-> <<>>]
    /\ writeChanClosed = [id \in ClientIds |-> FALSE]
    /\ conn = [id \in ClientIds |-> "open"]
    /\ reads = [id \in ClientIds |-> 0]
    /\ dispatched = [id \in ClientIds |-> 0]
    /\ enqueued = [id \in ClientIds |-> 0]
    /\ written = [id \in ClientIds |-> 0]

Init == InitWith(Periods)

\* case client := <-newClientChan. Once ShutdownChan is closed the acceptor
\* closes newClientChan; a receive from the closed channel yields nil, and
\* client.ID is a nil dereference.
NewClient ==
    /\ Alive
    /\ UNCHANGED fvars
    /\ \E nil \in IF shutdownClosed THEN BOOLEAN ELSE {FALSE} :
          IF nil
          THEN /\ panicked' = "nil pointer dereference"
               /\ UNCHANGED <<Clients, client, nextID>>
          ELSE /\ nextID < MaxClients
               /\ nextID < TimedClients \/ now = 0
               /\ Clients' = Clients \cup {nextID}
               /\ client' = [client EXCEPT ![nextID].LastActivityTime = now]
               /\ nextID' = nextID + 1
               /\ UNCHANGED panicked
    /\ UNCHANGED <<Nicks, Channels, shutdownClosed, listenerClosed, running, now, PingTime, DeadTime>>

\* case clientMessage := <-messageServerChan
ClientMessage ==
    /\ Alive
    /\ UNCHANGED gvars
    /\ \E c \in Clients :
          \E m \in MessageInputs(c) :
             \E ord \in OrdersFor(World, c, m) : Begin(handleMessage(World, c, m, ord))
    /\ UNCHANGED <<nextID, running>>

\* case client := <-deadClientChan
DeadClient ==
    /\ Alive
    /\ UNCHANGED gvars
    /\ \E c \in Clients :
          \E ord \in OrdersFor(World, c, Msg("QUIT", <<>>)) :
             Begin(quit(World, c, "I/O error", ord))
    /\ UNCHANGED <<nextID, running>>

\* case <-fromAlarmChan
Heartbeat ==
    /\ Alive
    /\ UNCHANGED gvars
    /\ \E ord \in Orders(World) : Begin(checkAndPingClients(World, ord))
    /\ UNCHANGED <<nextID, running>>

\* The send the handler waits at goes through, and the handler runs on to
\* its next send or to its end.
Resume ==
    /\ Looping
    /\ loopPc = "send"
    /\ UNCHANGED gvars
    /\ Become(Head(pending))
    /\ pending' = Tail(pending)
    /\ loopPc' = IF Tail(pending) = <<>> THEN "select" ELSE "send"
    /\ UNCHANGED <<nextID, running>>

\* case <-s.ShutdownChan: break MessageLoop
LoopExit ==
    /\ Alive
    /\ UNCHANGED fvars
    /\ shutdownClosed
    /\ running' = FALSE
    /\ UNCHANGED <<Clients, Nicks, Channels, client, nextID, shutdownClosed, listenerClosed,
                   panicked, now, PingTime, DeadTime>>

\* Time passes.
Tick ==
    /\ Looping
    /\ UNCHANGED fvars
    /\ now < MaxTime
    /\ nextID <= TimedClients
    /\ now' = now + 1
    /\ UNCHANGED <<Clients, Nicks, Channels, client, nextID, shutdownClosed, listenerClosed,
                   running, panicked, PingTime, DeadTime>>

Next ==
    \/ NewClient
    \/ ClientMessage
    \/ DeadClient
    \/ Heartbeat
    \/ Resume
    \/ LoopExit
    \/ Tick

Spec == Init /\ [][Next]_vars

\* The event loop under configurations that include a ping period longer
\* than the dead period.
SweepPeriods == {<<1, 0>>, <<1, 1>>, <<2, 0>>}

InitSweep == InitWith(SweepPeriods)

SpecSweep == InitSweep /\ [][Next]_vars

\* ------------------------------------------------------------------------
\* The event loop with clients that ask for operator status.

\* The nick of client c in these runs.
OperNick(c) == IF c = 0 THEN "a" ELSE "b"

\* What such a client sends: it registers, asks for operator status with
\* the right and with a wrong password, sets and clears the flag, talks to
\* the channel, and ends the server.
OperInputs(c) ==
    {Msg("NICK", <<OperNick(c)>>), Msg("USER", <<"u", "0", "*", "r">>),
     Msg("OPER", <<"root", "secret">>), Msg("OPER", <<"root", "guess">>),
     Msg("MODE", <<OperNick(c), "-o">>), Msg("MODE", <<OperNick(c), "+o">>),
     Msg("JOIN", <<"#x">>), Msg("QUIT", <<"bye">>), Msg("DIE", <<>>)}

\* case client := <-newClientChan
OperNewClient ==
    /\ Alive
    /\ UNCHANGED fvars
    /\ \E nil \in IF shutdownClosed THEN BOOLEAN ELSE {FALSE} :
          IF nil
          THEN /\ panicked' = "nil pointer dereference"
               /\ UNCHANGED <<Clients, client, nextID>>
          ELSE /\ nextID < OperClients
               /\ Clients' = Clients \cup {nextID}
               /\ client' = [client EXCEPT ![nextID].LastActivityTime = now]
               /\ nextID' = nextID + 1
               /\ UNCHANGED panicked
    /\ UNCHANGED <<Nicks, Channels, shutdownClosed, listenerClosed, running, now, PingTime, DeadTime>>

\* case clientMessage := <-messageServerChan
OperMessage ==
    /\ Alive
    /\ UNCHANGED gvars
    /\ \E c \in Clients :
          \E m \in OperInputs(c) :
             \E ord \in OrdersFor(World, c, m) : Begin(handleMessage(World, c, m, ord))
    /\ UNCHANGED <<nextID, running>>

NextOper ==
    \/ OperNewClient
    \/ OperMessage
    \/ DeadClient
    \/ Heartbeat
    \/ Resume
    \/ LoopExit
    \/ Tick

SpecOper == Init /\ [][NextOper]_vars

\* ------------------------------------------------------------------------
\* The event loop with clients that send long PRIVMSGs.

\* n copies of s.
RECURSIVE Repeat(_, _)
Repeat(s, n) ==
    IF n = 0 THEN ""
    ELSE IF n % 2 = 0 THEN LET half == Repeat(s, n \div 2) IN half \o half
    ELSE s \o Repeat(s, n - 1)

\* The nick of client c in these runs: a short one and one of full length.
TrimNick(c) == IF c = 0 THEN "a" ELSE "bcdefghij"

\* The targets: a nick, a channel, and a channel name of TargetLen bytes
\* (which still fits the line the client sends, with a short text).
TrimTargets == {"a", "#x", "#" \o Repeat("y", TargetLen - 1)}

\* The lengths of the texts client c sends to target t: one byte, the
\* longest text that fits the forwarded line and one byte more, and
\* TextLen bytes.
TrimLengths(c, t) ==
    LET fit == MaxLineLength - (Len(":") + Len(nickUhost(World, c)) + Len(" PRIVMSG ")
                                + Len(t) + Len(" ") + Len(":") + 2)
    IN  {n \in {1, fit, fit + 1, TextLen} : n > 0}

\* What such a client sends: it registers, joins the channel, and sends
\* the texts.
TrimInputs(c) ==
    {Msg("NICK", <<TrimNick(c)>>), Msg("USER", <<"u", "0", "*", "r">>),
     Msg("JOIN", <<"#x">>)}
    \cup {Msg("PRIVMSG", <<t, Repeat("z", n)>>) : t \in {"a", "#x"}, n \in TrimLengths(c, "#x")}
    \cup {Msg("PRIVMSG", <<t, Repeat("z", n)>>) :
             t \in TrimTargets \ {"a", "#x"}, n \in {1, TextLen}}

\* case client := <-newClientChan
TrimNewClient ==
    /\ Alive
    /\ UNCHANGED fvars
    /\ \E nil \in IF shutdownClosed THEN BOOLEAN ELSE {FALSE} :
          IF nil
          THEN /\ panicked' = "nil pointer dereference"
               /\ UNCHANGED <<Clients, client, nextID>>
          ELSE /\ nextID < TrimClients
               /\ Clients' = Clients \cup {nextID}
               /\ client' = [client EXCEPT ![nextID].LastActivityTime = now]
               /\ nextID' = nextID + 1
               /\ UNCHANGED panicked
    /\ UNCHANGED <<Nicks, Channels, shutdownClosed, listenerClosed, running, now, PingTime, DeadTime>>

\* case clientMessage := <-messageServerChan
TrimMessage ==
    /\ Alive
    /\ UNCHANGED gvars
    /\ \E c \in Clients :
          \E m \in TrimInputs(c) :
             \E ord \in OrdersFor(World, c, m) : Begin(handleMessage(World, c, m, ord))
    /\ UNCHANGED <<nextID, running>>

NextTrim ==
    \/ TrimNewClient
    \/ TrimMessage
    \/ DeadClient
    \/ Resume
    \/ Tick

SpecTrim == Init /\ [][NextTrim]_vars

\* ------------------------------------------------------------------------
\* The goroutines of Server.start: the event loop, the acceptor, the alarm,
\* and the reader and the writer of every connection. The clock stands
\* still in these runs, so a sweep finds nobody idle.
\*
\* A handler runs in steps. The step that takes the event runs the
\* handler up to its first send; its sends on WriteChans and its closes of
\* WriteChans stay in pending in program order, each with the server state
\* the handler reaches after it (what it writes up to its next send or to
\* its end), and the event loop does one of them per step, waiting at a
\* send on a WriteChan that is full. close(ShutdownChan) is the first
\* thing a DIE handler does, so it is part of the step that takes the
\* event; the close of the Listener, which comes right after it, is the
\* next step of the handler, since the acceptor can look at ShutdownChan
\* or be given a connection between the two.

\* What client c sends as its n-th message: client 0 registers and then
\* ends the server, quits or joins a channel, the others send a command
\* before they registered.
Script(c, n) ==
    IF c = 0
    THEN IF n = 1 THEN {Msg("NICK", <<"a">>)}
         ELSE IF n = 2 THEN {Msg("USER", <<"u", "0", "*", "r">>)}
         ELSE IF n = 3 THEN {Msg("DIE", <<>>), Msg("QUIT", <<"bye">>), Msg("JOIN", <<"#x">>)}
         ELSE {}
    ELSE IF n = 1 THEN {Msg("JOIN", <<"#x">>)} ELSE {}

\* The WriteChans that the handler from world W to world W2 closed.
Closes(W, W2) ==
    {k \in ClientIds : W2.client[k].WriteChanClosed /\ ~W.client[k].WriteChanClosed}

\* The state of the handler that makes W2 when it has done its i-th send
\* and has run on to its next send, or to its end.
Onward(W2, i) == IF i < Len(W2.sent) THEN W2.at[i + 1] ELSE Tracked(W2)

\* The sends and closes of the handler from W to W2, from its i-th send on,
\* each with the server state after it: Client.quit closes the WriteChan of
\* a client right after the ERROR it sends to it, which is the last message
\* to that client, and what it writes from there to the next send comes
\* with the close.
RECURSIVE Effects(_, _, _)
Effects(W, W2, i) ==
    IF i > Len(W2.sent) THEN <<>>
    ELSE
    LET m == W2.sent[i]
        last == \A j \in (i + 1)..Len(W2.sent) : W2.sent[j].To # m.To
    IN  IF m.To \in Closes(W, W2) /\ last
        THEN <<[op |-> "send", to |-> m.To, msg |-> m, after |-> W2.at[i]],
               [op |-> "close", to |-> m.To, msg |-> m, after |-> Onward(W2, i)]>>
             \o Effects(W, W2, i + 1)
        ELSE <<[op |-> "send", to |-> m.To, msg |-> m, after |-> Onward(W2, i)]>>
             \o Effects(W, W2, i + 1)

\* The state of the handler that makes W2 at its first send, or at its end
\* when it sends nothing.
Outset(W2) == IF W2.sent = <<>> THEN Tracked(W2) ELSE W2.at[1]

\* What the handler from W to W2 has yet to do when it has started: when it
\* ran Server.shutdown, which comes before everything it sends, to close
\* the Listener, and its sends and closes.
Steps(W, W2) ==
    (IF W2.signalled = <<>> THEN <<>>
     ELSE <<[op |-> "listener", to |-> -1, msg |-> NoMessage, after |-> Outset(W2)]>>)
    \o Effects(W, W2, 1)

\* The event loop runs a handler that makes world W2, up to its first send,
\* or up to the close of ShutdownChan.
Handle(W2) ==
    /\ Become(IF W2.signalled = <<>> THEN Outset(W2) ELSE W2.signalled[1])
    /\ pending' = Steps(World, W2)
    /\ loopPc' = IF Steps(World, W2) = <<>> THEN "select" ELSE "send"

\* A receive from a channel that takes the value sent last.
Receive_last(chan) ==
    [value |-> chan[Len(chan)], rest |-> SubSeq(chan, 1, Len(chan) - 1)]

\* A receive from a buffered channel that is not empty: the value sent
\* first, and what stays on the channel.
Receive(chan) == [value |-> Head(chan), rest |-> Tail(chan)]

\* A test of the client index that finds every client.
exists_always(c) == TRUE

\* _, exists := s.Clients[client.ID]
exists(c) == c \in Clients

\* The event loop is in MessageLoop, at its select.
Selecting == panicked = "" /\ loopPc = "select"

\* case client := <-newClientChan. A receive from the closed and empty
\* channel yields nil, and client.ID is a nil dereference.
LoopNewClient ==
    /\ Selecting
    /\ \/ /\ newClientChan # <<>>
          /\ Clients' = Clients \cup {Receive(newClientChan).value}
          /\ client' = [client EXCEPT ![Receive(newClientChan).value].LastActivityTime = now]
          /\ nextID' = Receive(newClientChan).value + 1
          /\ newClientChan' = Receive(newClientChan).rest
          /\ UNCHANGED panicked
       \/ /\ newClientChan = <<>> /\ newClientClosed
          /\ panicked' = "nil pointer dereference"
          /\ UNCHANGED <<Clients, client, nextID, newClientChan>>
    /\ UNCHANGED <<Nicks, Channels, shutdownClosed, listenerClosed, running, now, PingTime, DeadTime>>
    /\ UNCHANGED <<acceptor, accID, newClientClosed, messageServerChan,
                   deadClientChan, alarmPc, fromAlarmClosed, loopPc, pending, reader,
                   writer, WriteChan, writeChanClosed, conn, reads, dispatched,
                   enqueued, written>>

\* case clientMessage := <-messageServerChan
LoopMessage ==
    /\ Selecting
    /\ messageServerChan # <<>>
    /\ LET cm == Receive(messageServerChan).value IN
          /\ messageServerChan' = Receive(messageServerChan).rest
          /\ dispatched' = [dispatched EXCEPT ![cm.Client] = cm.Seq]
          /\ IF exists(cm.Client)
             THEN \E ord \in OrdersFor(World, cm.Client, cm.Message) :
                     Handle(handleMessage(World, cm.Client, cm.Message, ord))
             ELSE UNCHANGED <<Clients, Nicks, Channels, client, shutdownClosed, listenerClosed,
                              panicked, now, PingTime, DeadTime, pending, loopPc>>
    /\ UNCHANGED <<nextID, running>>
    /\ UNCHANGED <<acceptor, accID, newClientChan, newClientClosed, deadClientChan,
                   alarmPc, fromAlarmClosed, reader, writer, WriteChan,
                   writeChanClosed, conn, reads, enqueued, written>>

\* case client := <-deadClientChan
LoopDeadClient ==
    /\ Selecting
    /\ deadClientChan # <<>>
    /\ LET c == Receive(deadClientChan).value IN
          /\ deadClientChan' = Receive(deadClientChan).rest
          /\ IF exists(c)
             THEN \E ord \in OrdersFor(World, c, Msg("QUIT", <<>>)) :
                     Handle(quit(World, c, "I/O error", ord))
             ELSE UNCHANGED <<Clients, Nicks, Channels, client, shutdownClosed, listenerClosed,
                              panicked, now, PingTime, DeadTime, pending, loopPc>>
    /\ UNCHANGED <<nextID, running>>
    /\ UNCHANGED <<acceptor, accID, newClientChan, newClientClosed, messageServerChan,
                   alarmPc, fromAlarmClosed, reader, writer, WriteChan,
                   writeChanClosed, conn, reads, dispatched, enqueued, written>>

\* case <-fromAlarmChan: the alarm is at its send, or the channel is closed.
LoopAlarm ==
    /\ Selecting
    /\ alarmPc = "send" \/ fromAlarmClosed
    /\ alarmPc' = IF alarmPc = "send" THEN "check" ELSE alarmPc
    /\ \E ord \in Orders(World) : Handle(checkAndPingClients(World, ord))
    /\ UNCHANGED <<nextID, running>>
    /\ UNCHANGED <<acceptor, accID, newClientChan, newClientClosed, messageServerChan,
                   deadClientChan, fromAlarmClosed, reader, writer, WriteChan,
                   writeChanClosed, conn, reads, dispatched, enqueued, written>>

\* case <-s.ShutdownChan: break MessageLoop
LoopShutdown ==
    /\ Selecting
    /\ shutdownClosed
    /\ running' = FALSE
    /\ loopPc' = "drainNew"
    /\ UNCHANGED <<Clients, Nicks, Channels, client, nextID, shutdownClosed, listenerClosed,
                   panicked, now, PingTime, DeadTime>>
    /\ UNCHANGED <<acceptor, accID, newClientChan, newClientClosed, messageServerChan,
                   deadClientChan, alarmPc, fromAlarmClosed, pending, reader, writer,
                   WriteChan, writeChanClosed, conn, reads, dispatched, enqueued,
                   written>>

\* The event loop, inside a handler, does the next send on a WriteChan
\* (when the channel has room) or the next close of one.
LoopSends ==
    /\ panicked = ""
    /\ loopPc = "send"
    /\ Head(pending).op # "listener"
    /\ LET e == Head(pending) IN
          IF e.op = "close"
          THEN /\ writeChanClosed' = [writeChanClosed EXCEPT ![e.to] = TRUE]
               /\ UNCHANGED <<WriteChan, enqueued>>
          ELSE /\ Len(WriteChan[e.to]) < OutboxCap
               /\ WriteChan' = [WriteChan EXCEPT ![e.to] =
                                   Append(@, [msg |-> e.msg, seq |-> enqueued[e.to] + 1])]
               /\ enqueued' = [enqueued EXCEPT ![e.to] = @ + 1]
               /\ UNCHANGED writeChanClosed
    /\ Become(Head(pending).after)
    /\ pending' = Tail(pending)
    /\ loopPc' = IF Tail(pending) = <<>> THEN "select" ELSE "send"
    /\ UNCHANGED <<nextID, running>>
    /\ UNCHANGED <<acceptor, accID, newClientChan, newClientClosed, messageServerChan,
                   deadClientChan, alarmPc, fromAlarmClosed, reader, writer, conn,
                   reads, dispatched, written>>

\* The event loop, in Server.shutdown, closes the Listener and runs on to
\* its first send.
LoopClosesListener ==
    /\ panicked = ""
    /\ loopPc = "send"
    /\ Head(pending).op = "listener"
    /\ Become(Head(pending).after)
    /\ pending' = Tail(pending)
    /\ loopPc' = IF Tail(pending) = <<>> THEN "select" ELSE "send"
    /\ UNCHANGED <<nextID, running>>
    /\ UNCHANGED <<acceptor, accID, newClientChan, newClientClosed, messageServerChan,
                   deadClientChan, alarmPc, fromAlarmClosed, reader, writer, WriteChan,
                   writeChanClosed, conn, reads, dispatched, enqueued, written>>

\* for range newClientChan
LoopDrainsNew ==
    /\ panicked = ""
    /\ loopPc = "drainNew"
    /\ IF newClientChan # <<>>
       THEN newClientChan' = Receive(newClientChan).rest /\ UNCHANGED loopPc
       ELSE newClientClosed /\ loopPc' = "drainAlarm" /\ UNCHANGED newClientChan
    /\ UNCHANGED svars
    /\ UNCHANGED <<acceptor, accID, newClientClosed, messageServerChan,
                   deadClientChan, alarmPc, fromAlarmClosed, pending, reader, writer,
                   WriteChan, writeChanClosed, conn, reads, dispatched, enqueued,
                   written>>

\* for range fromAlarmChan
LoopDrainsAlarm ==
    /\ panicked = ""
    /\ loopPc = "drainAlarm"
    /\ IF alarmPc = "send"
       THEN alarmPc' = "check" /\ UNCHANGED loopPc
       ELSE fromAlarmClosed /\ loopPc' = "wait" /\ UNCHANGED alarmPc
    /\ UNCHANGED svars
    /\ UNCHANGED <<acceptor, accID, newClientChan, newClientClosed, messageServerChan,
                   deadClientChan, fromAlarmClosed, pending, reader, writer,
                   WriteChan, writeChanClosed, conn, reads, dispatched, enqueued,
                   written>>

\* Every goroutine that was started has called WG.Done.
AllDone ==
    /\ acceptor = "done"
    /\ alarmPc = "done"
    /\ \A c \in ClientIds : reader[c].pc \in {"none", "done"}
    /\ \A c \in ClientIds : writer[c].pc \in {"none", "done"}

\* s.WG.Wait(); return nil
LoopWaits ==
    /\ panicked = ""
    /\ loopPc = "wait"
    /\ AllDone
    /\ loopPc' = "done"
    /\ UNCHANGED svars
    /\ UNCHANGED <<acceptor, accID, newClientChan, newClientClosed, messageServerChan,
                   deadClientChan, alarmPc, fromAlarmClosed, pending, reader, writer,
                   WriteChan, writeChanClosed, conn, reads, dispatched, enqueued,
                   written>>

\* acceptConnections, at the top of its loop: s.shuttingDown() is false,
\* and the acceptor goes on to s.Listener.Accept().
AcceptorListens ==
    /\ panicked = ""
    /\ acceptor = "check"
    /\ ~shutdownClosed
    /\ acceptor' = "accept"
    /\ UNCHANGED svars
    /\ UNCHANGED <<accID, newClientChan, newClientClosed, messageServerChan,
                   deadClientChan, alarmPc, fromAlarmClosed, loopPc, pending, reader,
                   writer, WriteChan, writeChanClosed, conn, reads, dispatched,
                   enqueued, written>>

\* acceptConnections, at the top of its loop:
\* if s.shuttingDown() { close(newClientChan); return }
AcceptorStops ==
    /\ panicked = ""
    /\ acceptor = "check"
    /\ shutdownClosed
    /\ acceptor' = "done"
    /\ newClientClosed' = TRUE
    /\ UNCHANGED svars
    /\ UNCHANGED <<accID, newClientChan, messageServerChan, deadClientChan, alarmPc,
                   fromAlarmClosed, loopPc, pending, reader, writer, WriteChan,
                   writeChanClosed, conn, reads, dispatched, enqueued, written>>

\* acceptConnections: Accept returns a connection, which it does as long
\* as the Listener is open; the acceptor builds the Client and starts its
\* reader and its writer.
AcceptorAccepts ==
    /\ panicked = ""
    /\ acceptor = "accept"
    /\ ~listenerClosed
    /\ accID < FiberClients
    /\ reader' = [reader EXCEPT ![accID] = At("read", NoMessage)]
    /\ writer' = [writer EXCEPT ![accID] = At("recv", NoMessage)]
    /\ accID' = accID + 1
    /\ acceptor' = "announce"
    /\ UNCHANGED svars
    /\ UNCHANGED <<newClientChan, newClientClosed, messageServerChan, deadClientChan,
                   alarmPc, fromAlarmClosed, loopPc, pending, WriteChan,
                   writeChanClosed, conn, reads, dispatched, enqueued, written>>

\* acceptConnections: Accept fails on the closed Listener; continue.
AcceptorFails ==
    /\ panicked = ""
    /\ acceptor = "accept"
    /\ listenerClosed
    /\ acceptor' = "check"
    /\ UNCHANGED svars
    /\ UNCHANGED <<accID, newClientChan, newClientClosed, messageServerChan,
                   deadClientChan, alarmPc, fromAlarmClosed, loopPc, pending, reader,
                   writer, WriteChan, writeChanClosed, conn, reads, dispatched,
                   enqueued, written>>

\* acceptConnections: newClientChan <- client, and back to the top of the
\* loop.
AcceptorAnnounces ==
    /\ panicked = ""
    /\ acceptor = "announce"
    /\ Len(newClientChan) < ChanCap
    /\ newClientChan' = Append(newClientChan, accID - 1)
    /\ acceptor' = "check"
    /\ UNCHANGED svars
    /\ UNCHANGED <<accID, newClientClosed, messageServerChan, deadClientChan, alarmPc,
                   fromAlarmClosed, loopPc, pending, reader, writer, WriteChan,
                   writeChanClosed, conn, reads, dispatched, enqueued, written>>

\* alarm: if s.shuttingDown() { close(toServer); return }; otherwise it
\* sleeps and comes to its send again. (The send is the other half of
\* LoopAlarm and LoopDrainsAlarm.)
AlarmChecks ==
    /\ panicked = ""
    /\ alarmPc = "check"
    /\ IF shutdownClosed
       THEN alarmPc' = "done" /\ fromAlarmClosed' = TRUE
       ELSE alarmPc' = "send" /\ UNCHANGED fromAlarmClosed
    /\ UNCHANGED svars
    /\ UNCHANGED <<acceptor, accID, newClientChan, newClientClosed, messageServerChan,
                   deadClientChan, loopPc, pending, reader, writer, WriteChan,
                   writeChanClosed, conn, reads, dispatched, enqueued, written>>

\* A goroutine that returns without a word to the event loop.
Notified_never(c) == {deadClientChan}

\* select { case deadClientChan <- c: case <-ShutdownChan: } of readLoop
\* and writeLoop: the channel after it, for each case that is ready.
Notified(c) ==
    {Append(deadClientChan, c) : x \in {1} \cap {IF Len(deadClientChan) < ChanCap THEN 1 ELSE 0}}
    \cup {deadClientChan : x \in {1} \cap {IF shutdownClosed THEN 1 ELSE 0}}

\* readLoop: ReadMessage returns the next message of the peer.
\* A reader that notes the time of the read in its Client.
ReadMessage_stamps(c) ==
    /\ reader[c].pc = "read"
    /\ conn[c] = "open"
    /\ \E m \in Script(c, reads[c] + 1) :
          reader' = [reader EXCEPT ![c] = At("msg", m)]
    /\ reads' = [reads EXCEPT ![c] = @ + 1]
    /\ client' = [client EXCEPT ![c].LastActivityTime = now]
    /\ UNCHANGED <<Clients, Nicks, Channels, nextID, shutdownClosed, listenerClosed,
                   running, panicked, now, PingTime, DeadTime>>

\* readLoop of client c: c.Conn.ReadMessage() returns the next message the
\* peer sent. The reader writes no field of the Client and nothing of the
\* Server.
ReadMessage(c) ==
    /\ reader[c].pc = "read"
    /\ conn[c] = "open"
    /\ \E m \in Script(c, reads[c] + 1) :
          reader' = [reader EXCEPT ![c] = At("msg", m)]
    /\ reads' = [reads EXCEPT ![c] = @ + 1]
    /\ UNCHANGED svars

ReaderReads ==
    /\ panicked = ""
    /\ \E c \in ClientIds : ReadMessage(c)
    /\ UNCHANGED <<acceptor, accID, newClientChan, newClientClosed, messageServerChan,
                   deadClientChan, alarmPc, fromAlarmClosed, loopPc, pending, writer,
                   WriteChan, writeChanClosed, conn, dispatched, enqueued, written>>

\* readLoop: ReadMessage fails, the connection being reset by the peer or
\* closed by the writer; the reader offers the client on deadClientChan
\* (or sees ShutdownChan closed) and returns.
ReaderFails ==
    /\ panicked = ""
    /\ \E c \in ClientIds :
          /\ reader[c].pc = "read"
          /\ conn[c] # "open"
          /\ deadClientChan' \in Notified(c)
          /\ reader' = [reader EXCEPT ![c] = At("done", NoMessage)]
    /\ UNCHANGED svars
    /\ UNCHANGED <<acceptor, accID, newClientChan, newClientClosed, messageServerChan,
                   alarmPc, fromAlarmClosed, loopPc, pending, writer, WriteChan,
                   writeChanClosed, conn, reads, dispatched, enqueued, written>>

\* readLoop: select { case messageServerChan <- ...: case <-ShutdownChan: return }
ReaderOffers ==
    /\ panicked = ""
    /\ \E c \in ClientIds :
          /\ reader[c].pc = "msg"
          /\ \/ /\ Len(messageServerChan) < ChanCap
                /\ messageServerChan' =
                      Append(messageServerChan,
                             [Client |-> c, Message |-> reader[c].held, Seq |-> reads[c]])
                /\ reader' = [reader EXCEPT ![c] = At("read", NoMessage)]
             \/ /\ shutdownClosed
                /\ reader' = [reader EXCEPT ![c] = At("done", NoMessage)]
                /\ UNCHANGED messageServerChan
    /\ UNCHANGED svars
    /\ UNCHANGED <<acceptor, accID, newClientChan, newClientClosed, deadClientChan,
                   alarmPc, fromAlarmClosed, loopPc, pending, writer, WriteChan,
                   writeChanClosed, conn, reads, dispatched, enqueued, written>>

\* A range over the WriteChan of c that ends as soon as the channel is
\* closed.
RangeEnds_atClose(c) == writeChanClosed[c]

\* for message := range c.WriteChan ends when the channel is closed and
\* nothing is left on it.
RangeEnds(c) == writeChanClosed[c] /\ WriteChan[c] = <<>>

\* writeLoop: for message := range c.WriteChan takes the next message, or
\* ends on the closed and empty channel; then c.Conn.Close().
WriterReceives ==
    /\ panicked = ""
    /\ \E c \in ClientIds :
          /\ writer[c].pc = "recv"
          /\ IF RangeEnds(c)
             THEN /\ writer' = [writer EXCEPT ![c] = At("done", NoMessage)]
                  /\ conn' = [conn EXCEPT ![c] = IF @ = "open" THEN "closed" ELSE @]
                  /\ UNCHANGED WriteChan
             ELSE /\ WriteChan[c] # <<>>
                  /\ writer' = [writer EXCEPT ![c] = At("write", Receive(WriteChan[c]).value)]
                  /\ WriteChan' = [WriteChan EXCEPT ![c] = Receive(@).rest]
                  /\ UNCHANGED conn
    /\ UNCHANGED svars
    /\ UNCHANGED <<acceptor, accID, newClientChan, newClientClosed, messageServerChan,
                   deadClientChan, alarmPc, fromAlarmClosed, loopPc, pending, reader,
                   writeChanClosed, reads, dispatched, enqueued, written>>

\* writeLoop: c.Conn.WriteMessage(message) writes the message.
WriterWrites ==
    /\ panicked = ""
    /\ \E c \in ClientIds :
          /\ writer[c].pc = "write"
          /\ conn[c] = "open"
          /\ written' = [written EXCEPT ![c] = writer[c].held.seq]
          /\ writer' = [writer EXCEPT ![c] = At("recv", NoMessage)]
    /\ UNCHANGED svars
    /\ UNCHANGED <<acceptor, accID, newClientChan, newClientClosed, messageServerChan,
                   deadClientChan, alarmPc, fromAlarmClosed, loopPc, pending, reader,
                   WriteChan, writeChanClosed, conn, reads, dispatched, enqueued>>

\* writeLoop: c.Conn.WriteMessage(message) fails on a connection the peer
\* has reset; the writer offers the client on deadClientChan (or sees
\* ShutdownChan closed), leaves its loop and closes the connection (which
\* stays "reset" here: a read on it fails either way).
WriterFails ==
    /\ panicked = ""
    /\ \E c \in ClientIds :
          /\ writer[c].pc = "write"
          /\ conn[c] # "open"
          /\ deadClientChan' \in Notified(c)
          /\ UNCHANGED conn
          /\ writer' = [writer EXCEPT ![c] = At("done", NoMessage)]
    /\ UNCHANGED svars
    /\ UNCHANGED <<acceptor, accID, newClientChan, newClientClosed, messageServerChan,
                   alarmPc, fromAlarmClosed, loopPc, pending, reader, WriteChan,
                   writeChanClosed, reads, dispatched, enqueued, written>>

\* The peer of a connection resets it.
PeerResets ==
    /\ panicked = ""
    /\ Cardinality({c \in ClientIds : conn[c] = "reset"}) < MaxResets
    /\ \E c \in ClientIds :
          /\ reader[c].pc # "none"
          /\ conn[c] = "open"
          /\ conn' = [conn EXCEPT ![c] = "reset"]
    /\ UNCHANGED svars
    /\ UNCHANGED <<acceptor, accID, newClientChan, newClientClosed, messageServerChan,
                   deadClientChan, alarmPc, fromAlarmClosed, loopPc, pending, reader,
                   writer, WriteChan, writeChanClosed, reads, dispatched, enqueued,
                   written>>

\* The server with one ping and dead period.
InitFibers == InitWith({<<1, 1>>})

NextFibers ==
    \/ LoopNewClient
    \/ LoopMessage
    \/ LoopDeadClient
    \/ LoopAlarm
    \/ LoopShutdown
    \/ LoopSends
    \/ LoopClosesListener
    \/ LoopDrainsNew
    \/ LoopDrainsAlarm
    \/ LoopWaits
    \/ AcceptorListens
    \/ AcceptorStops
    \/ AcceptorAccepts
    \/ AcceptorFails
    \/ AcceptorAnnounces
    \/ AlarmChecks
    \/ ReaderReads
    \/ ReaderFails
    \/ ReaderOffers
    \/ WriterReceives
    \/ WriterWrites
    \/ WriterFails
    \/ PeerResets

SpecFibers == InitFibers /\ [][NextFibers]_vars

\* ------------------------------------------------------------------------
\* Properties.

\* The clients a nick index maps to.
NickHolders == {Nicks[n] : n \in DOMAIN Nicks}

\* The messages of command that world W sent to client k.
SentTo(W, k, command) ==
    {i \in 1..Len(W.sent) : W.sent[i].To = k /\ W.sent[i].Command = command}

\* The messages of command in the name of client c (as it was in world W0)
\* that world W sent to client k.
SentFromTo(W0, W, c, k, command) ==
    {i \in SentTo(W, k, command) : W.sent[i].Prefix = nickUhost(W0, c)}

\* World W before the handler that made it sent anything.
Quiet(W) == Tracked(W)

\* (The properties of handlers below are of the handlers the event loop can
\* run: those of a state in which it is Alive. They name the world a handler
\* makes by a quantifier over the set of that one world.)

\* The state a handler for a message of client c starts from, once
\* handleMessage has noted the activity.
Noted(c) == [World EXCEPT !.client[c].LastActivityTime = now]

\* The indices of world W, and the channels each indexed client is on.
Indices(W) ==
    [Clients |-> W.Clients, Nicks |-> W.Nicks, Channels |-> W.Channels,
     On |-> [k \in W.Clients |-> W.client[k].Channels]]

RegisteredClients == {c \in Clients : client[c].Registered}

\* The event loop is in no handler: it is at its select, or it has left
\* MessageLoop, or the process has ended there.
Quiescent == loopPc = "select"

\* C1: whenever the event loop is in no handler, the nick index maps each
\* canonical nick to a client in the client index whose canonical nick is
\* that key, every client in the client index that has a nick is under
\* exactly one key, and no two clients have the same canonical nick.
C1_NickIndex ==
    Quiescent =>
    /\ \A n \in DOMAIN Nicks :
          Nicks[n] \in Clients /\ canonicalizeNick(client[Nicks[n]].Nick) = n
    /\ \A c \in Clients :
          client[c].Nick # "" => Cardinality({n \in DOMAIN Nicks : Nicks[n] = c}) = 1
    /\ \A c, k \in Clients :
          c # k /\ client[c].Nick # "" /\ client[k].Nick # ""
             => canonicalizeNick(client[c].Nick) # canonicalizeNick(client[k].Nick)

\* Client 0 gave up nick a for d, client 1 then took a, and client 2 holds
\* a nick while not registered.
C1_Witness ==
    /\ Clients = {0, 1, 2}
    /\ client[0].Nick = "d" /\ client[1].Nick = "a" /\ client[2].Nick = "c"
    /\ client[0].Registered /\ ~client[2].Registered
    /\ Nicks = [n \in {"a", "c", "d"} |-> IF n = "d" THEN 0 ELSE IF n = "a" THEN 1 ELSE 2]

\* C2: whenever the event loop is in no handler, a client of the client
\* index is among the members of a channel of the channel index exactly
\* when that channel is among the client's channels; the members of every
\* channel are in the client index and the channels of every client are in
\* the channel index.
C2_MembershipSymmetric ==
    Quiescent =>
    /\ \A ch \in DOMAIN Channels : Channels[ch] \subseteq Clients
    /\ \A k \in Clients : client[k].Channels \subseteq DOMAIN Channels
    /\ \A ch \in DOMAIN Channels : \A k \in Clients :
          k \in Channels[ch] <=> ch \in client[k].Channels

\* Two channels with different members, after a client has left one of
\* them and another client has quit.
C2_Witness ==
    /\ DOMAIN Channels = {"#x", "#y"}
    /\ Channels["#x"] = {0, 1} /\ Channels["#y"] = {1}
    /\ client[2].WriteChanClosed
    /\ \E ord \in OrdersFor(World, 0, Msg("PART", <<"#x">>)) :
          LET W2 == handleMessage(World, 0, Msg("PART", <<"#x">>), ord)
          IN  W2.Channels["#x"] = {1} /\ W2.client[0].Channels = {}

\* A channel that appears in the channel index has one member, who was in
\* the client index and not on the channel.
CreatedByJoin ==
    \A ch \in DOMAIN Channels' \ DOMAIN Channels :
       \E c \in Clients :
          /\ Channels'[ch] = {c}
          /\ ch \notin client[c].Channels
          /\ ch \in client'[c].Channels

\* C3: no channel of the channel index is without members, and a channel
\* comes into the index only with the one client that joins it.
C3_NoEmptyChannel ==
    /\ [](\A ch \in DOMAIN Channels : Channels[ch] # {})
    /\ [][CreatedByJoin]_vars

\* One channel has a single member and another has two; the channel goes
\* with its last member, by PART and by QUIT, and the other stays.
C3_Witness ==
    /\ DOMAIN Channels = {"#x", "#y"}
    /\ Channels["#x"] = {0} /\ Channels["#y"] = {0, 1}
    /\ \E ord \in OrdersFor(World, 0, Msg("PART", <<"#x">>)) :
          DOMAIN handleMessage(World, 0, Msg("PART", <<"#x">>), ord).Channels = {"#y"}
    /\ \E ord \in OrdersFor(World, 0, Msg("QUIT", <<>>)) :
          handleMessage(World, 0, Msg("QUIT", <<>>), ord).Channels
             = [ch \in {"#y"} |-> {1}]

\* C4: every client of the client index has an open WriteChan, and a client
\* whose WriteChan is closed is in no index: not in the client index, not
\* under any nick, not a member of any channel.
C4_ClosedIsGone ==
    /\ \A c \in Clients : ~client[c].WriteChanClosed
    /\ \A c \in ClientIds :
          client[c].WriteChanClosed =>
             /\ c \notin Clients
             /\ c \notin NickHolders
             /\ \A ch \in DOMAIN Channels : c \notin Channels[ch]

\* Client 0 was registered and on a channel with client 1 and quits; after
\* it its WriteChan is closed and client 1 is alone in the indices.
C4_Witness ==
    /\ Clients = {0, 1}
    /\ client[0].Registered /\ client[1].Registered
    /\ Channels = [ch \in {"#x"} |-> {0, 1}]
    /\ \E ord \in OrdersFor(World, 0, Msg("QUIT", <<>>)) :
          LET W2 == handleMessage(World, 0, Msg("QUIT", <<>>), ord)
          IN  /\ W2.client[0].WriteChanClosed
              /\ W2.Clients = {1}
              /\ DOMAIN W2.Nicks = {canonicalizeNick(client[1].Nick)}
              /\ W2.Channels = [ch \in {"#x"} |-> {1}]

\* What Client.quit of registered client c, run in the state as it is, has
\* to have sent in world W2: one QUIT from c with text to c and to every
\* client on a channel with c, and no other QUIT.
QuitTold(W2, c, text) ==
    /\ W2.panicked = ""
    /\ \A k \in ClientIds :
          Cardinality(SentTo(W2, k, "QUIT"))
             = IF k \in Peers(World, c) \cup {c} THEN 1 ELSE 0
    /\ \A i \in 1..Len(W2.sent) :
          W2.sent[i].Command = "QUIT"
             => W2.sent[i].Prefix = nickUhost(World, c) /\ W2.sent[i].Params = <<text>>

\* What a handler that has several clients quit (the sweep, the shutdown)
\* has to have sent for each registered client c that quit in it: one QUIT
\* from c to c, at most one to anyone, none to a client that was on no
\* channel with c, and one to every client on a channel with c unless that
\* client had quit before c in the same handler and so had told c.
QuitsTold(W2) ==
    \A c \in RegisteredClients \ W2.Clients :
       /\ Cardinality(SentFromTo(World, W2, c, c, "QUIT")) = 1
       /\ \A k \in ClientIds \ {c} :
             LET n == Cardinality(SentFromTo(World, W2, c, k, "QUIT")) IN
             IF k \notin Peers(World, c) THEN n = 0
             ELSE IF k \in W2.Clients THEN n = 1
             ELSE n = 1 \/ (n = 0 /\ Cardinality(SentFromTo(World, W2, k, c, "QUIT")) = 1)

\* C5: when a registered client quits, by a QUIT command, by a dead
\* connection, by the liveness sweep or by the shutdown, its QUIT goes once
\* to every client that is on a channel with it at that time and once to
\* itself, and to nobody else.
C5_QuitOnce ==
    Alive =>
    /\ \A c \in RegisteredClients :
          \A ord \in OrdersFor(World, c, Msg("QUIT", <<>>)) :
             /\ \A W2 \in {handleMessage(World, c, Msg("QUIT", <<"bye">>), ord)} :
                   QuitTold(W2, c, "Quit: bye")
             /\ \A W2 \in {handleMessage(World, c, Msg("QUIT", <<>>), ord)} :
                   QuitTold(W2, c, "Quit:")
             /\ \A W2 \in {quit(World, c, "I/O error", ord)} :
                   QuitTold(W2, c, "I/O error")
    /\ \A ord \in Orders(World) :
          /\ \A W2 \in {checkAndPingClients(World, ord)} : QuitsTold(W2)
          /\ \A W2 \in {shutdown(World, ord)} : QuitsTold(W2)

\* Client c is on two channels with client k and on none with client j,
\* and its QUIT goes out twice: to k and to itself.
C5_Witness ==
    \E c, k, j \in RegisteredClients :
       /\ c # k /\ c # j /\ k # j
       /\ Cardinality(client[c].Channels \cap client[k].Channels) = 2
       /\ client[c].Channels \cap client[j].Channels = {}
       /\ \E ord \in OrdersFor(World, c, Msg("QUIT", <<>>)) :
             LET W2 == handleMessage(World, c, Msg("QUIT", <<"bye">>), ord)
             IN  /\ {W2.sent[i].To :
                        i \in {x \in 1..Len(W2.sent) : W2.sent[x].Command = "QUIT"}}
                       = {c, k}
                 /\ Cardinality(SentTo(W2, k, "QUIT")) = 1

\* The nicks a client changes to (the last is not valid).
NewNicks == {"a", "b", "c", "d", "e", "E"}

\* C6: when a registered client changes its nick to a valid nick that is
\* free, the NICK message goes once to every client on a channel with it
\* and once to itself, to nobody else, and carries the old nick in its
\* prefix and the new nick as its parameter; the client has the new nick
\* afterwards.
C6_NickOnce ==
    Alive =>
    \A c \in RegisteredClients :
       \A nick \in NewNicks :
          isValidNick(nick) /\ canonicalizeNick(nick) \notin DOMAIN Nicks =>
             \A ord \in OrdersFor(World, c, Msg("NICK", <<nick>>)) :
                \A W2 \in {handleMessage(World, c, Msg("NICK", <<nick>>), ord)} :
                /\ W2.panicked = ""
                /\ \A k \in ClientIds :
                      Cardinality(SentTo(W2, k, "NICK"))
                         = IF k \in Peers(World, c) \cup {c} THEN 1 ELSE 0
                /\ \A i \in 1..Len(W2.sent) :
                      /\ W2.sent[i].Command = "NICK"
                      /\ W2.sent[i].Prefix = nickUhost(World, c)
                      /\ W2.sent[i].Params = <<nick>>
                /\ nickUhost(W2, c) # nickUhost(World, c)
                /\ W2.client[c].Nick = nick

\* Client c is on two channels with client k and on none with client j,
\* and its change of nick goes out twice: to k and to itself.
C6_Witness ==
    \E c, k, j \in RegisteredClients :
       /\ c # k /\ c # j /\ k # j
       /\ Cardinality(client[c].Channels \cap client[k].Channels) = 2
       /\ client[c].Channels \cap client[j].Channels = {}
       /\ \E ord \in OrdersFor(World, c, Msg("NICK", <<"e">>)) :
             LET W2 == handleMessage(World, c, Msg("NICK", <<"e">>), ord)
             IN  /\ Len(W2.sent) = 2
                 /\ {W2.sent[i].To : i \in 1..2} = {c, k}
                 /\ W2.client[c].Nick = "e"

\* C7: a JOIN of a registered client to a valid channel it is not on adds
\* it to the members of the channel and the channel to its channels, and
\* sends, in this order: the JOIN to the joiner, one 353 to the joiner for
\* each member (the joiner among them), the 366 to the joiner, and the JOIN
\* once to each of the other members.
C7_Join ==
    Alive =>
    \A c \in RegisteredClients :
       \A ch \in ChannelInputs :
          LET channelName == canonicalizeChannel(ch) IN
          isValidChannel(channelName) /\ channelName \notin client[c].Channels =>
             \A ord \in OrdersFor(World, c, Msg("JOIN", <<ch>>)) :
                \A W2 \in {handleMessage(World, c, Msg("JOIN", <<ch>>), ord)} :
                LET old == MembersOf(World, channelName)
                    n == Cardinality(old) + 1
                    s == W2.sent
                IN
                /\ W2.panicked = ""
                /\ channelName \in DOMAIN W2.Channels
                /\ W2.Channels[channelName] = old \cup {c}
                /\ W2.client[c].Channels = client[c].Channels \cup {channelName}
                /\ Len(s) = 2 * n + 1
                /\ s[1] = [To |-> c, Prefix |-> nickUhost(World, c), Command |-> "JOIN",
                           Params |-> <<channelName>>]
                /\ \A i \in 2..(n + 1) :
                      /\ s[i].To = c /\ s[i].Prefix = ServerName /\ s[i].Command = "353"
                      /\ \E k \in old \cup {c} :
                            s[i].Params = <<client[c].Nick, "=", channelName,
                                            ":" \o client[k].Nick>>
                /\ \A k \in old \cup {c} :
                      Cardinality({i \in 2..(n + 1) :
                                      s[i].Params[4] = ":" \o client[k].Nick}) = 1
                /\ s[n + 2] = [To |-> c, Prefix |-> ServerName, Command |-> "366",
                               Params |-> <<client[c].Nick, channelName, "End of NAMES list">>]
                /\ \A i \in (n + 3)..(2 * n + 1) :
                      /\ s[i].To \in old
                      /\ s[i].Prefix = nickUhost(World, c)
                      /\ s[i].Command = "JOIN"
                      /\ s[i].Params = <<channelName>>
                /\ \A k \in old :
                      Cardinality({i \in (n + 3)..(2 * n + 1) : s[i].To = k}) = 1

\* The third client joins a channel that has the other two as members:
\* seven messages, the last two to the other two.
C7_Witness ==
    /\ RegisteredClients = {0, 1, 2}
    /\ "#y" \in DOMAIN Channels
    /\ Channels["#y"] = {0, 1}
    /\ \E ord \in OrdersFor(World, 2, Msg("JOIN", <<"#Y">>)) :
          LET W2 == handleMessage(World, 2, Msg("JOIN", <<"#Y">>), ord)
          IN  /\ Len(W2.sent) = 7
              /\ W2.sent[6].To = 1 /\ W2.sent[7].To = 0
              /\ W2.Channels["#y"] = {0, 1, 2}

\* C8: a JOIN of a registered client to a valid channel it is not on,
\* followed by its PART from that channel, leaves the client index, the
\* nick index, the channel index and the channels of every client (and all
\* else but the time of the client's last activity) as they were, so that a
\* second JOIN has the effects and sends the messages of the first.
C8_JoinPartJoin ==
    Alive =>
    \A c \in RegisteredClients :
       \A ch \in ChannelInputs :
          LET channelName == canonicalizeChannel(ch) IN
          isValidChannel(channelName) /\ channelName \notin client[c].Channels =>
             \A o1 \in OrdersFor(World, c, Msg("JOIN", <<ch>>)) :
                \A W1 \in {handleMessage(World, c, Msg("JOIN", <<ch>>), o1)} :
                \A o2 \in OrdersFor(W1, c, Msg("PART", <<ch>>)) :
                \A W2 \in {handleMessage(Quiet(W1), c, Msg("PART", <<ch>>), o2)} :
                \A W3 \in {handleMessage(Quiet(W2), c, Msg("JOIN", <<ch>>), o1)} :
                   /\ Indices(W1) # Indices(World)
                   /\ Indices(W2) = Indices(World)
                   /\ Quiet(W2) = Noted(c)
                   /\ W3 = W1

\* A client makes a channel by its JOIN and ends it by its PART, and
\* another joins and leaves a channel that has a member.
C8_Witness ==
    /\ RegisteredClients = {0, 1}
    /\ Channels = [ch \in {"#x"} |-> {1}]
    /\ \E o1 \in OrdersFor(World, 0, Msg("JOIN", <<"#x">>)) :
          LET W1 == handleMessage(World, 0, Msg("JOIN", <<"#x">>), o1) IN
          /\ W1.Channels["#x"] = {0, 1}
          /\ \E o2 \in OrdersFor(W1, 0, Msg("PART", <<"#x">>)) :
                handleMessage(Quiet(W1), 0, Msg("PART", <<"#x">>), o2).Channels = Channels
    /\ \E o1 \in OrdersFor(World, 0, Msg("JOIN", <<"#Y">>)) :
          LET W1 == handleMessage(World, 0, Msg("JOIN", <<"#Y">>), o1) IN
          /\ DOMAIN W1.Channels = {"#x", "#y"}
          /\ \E o2 \in OrdersFor(W1, 0, Msg("PART", <<"#Y">>)) :
                handleMessage(Quiet(W1), 0, Msg("PART", <<"#Y">>), o2).Channels = Channels

\* C9: a PART of a registered client from a channel it is a member of sends
\* the PART once to every member, the client among them, and to nobody
\* else, takes the client out of the members and the channel out of the
\* client's channels, and deletes the channel exactly when no member is
\* left; a PART from a channel whose name is not valid, that does not exist
\* or that the client is not a member of sends one 403 to the client and
\* changes nothing.
C9_Part ==
    Alive =>
    \A c \in RegisteredClients :
       \A ch \in ChannelInputs :
          \A text \in {"", "so long"} :
             LET m == Msg("PART", IF text = "" THEN <<ch>> ELSE <<ch, text>>)
                 channelName == canonicalizeChannel(ch)
             IN
             \A ord \in OrdersFor(World, c, m) :
                \A W2 \in {handleMessage(World, c, m, ord)} :
                LET s == W2.sent IN
                IF /\ isValidChannel(channelName)
                   /\ channelName \in DOMAIN Channels
                   /\ c \in Channels[channelName]
                THEN
                   /\ W2.panicked = ""
                   /\ Len(s) = Cardinality(Channels[channelName])
                   /\ \A k \in Channels[channelName] :
                         Cardinality(SentTo(W2, k, "PART")) = 1
                   /\ \A i \in 1..Len(s) :
                         /\ s[i].Command = "PART"
                         /\ s[i].Prefix = nickUhost(World, c)
                         /\ s[i].Params = IF text = "" THEN <<channelName>>
                                          ELSE <<channelName, text>>
                   /\ W2.client[c].Channels = client[c].Channels \ {channelName}
                   /\ IF Channels[channelName] = {c}
                      THEN W2.Channels = MapDelete(Channels, channelName)
                      ELSE W2.Channels
                              = [Channels EXCEPT ![channelName] = @ \ {c}]
                   /\ Quiet(W2) = [Noted(c) EXCEPT
                                     !.Channels = W2.Channels,
                                     !.client[c].Channels = @ \ {channelName}]
                ELSE
                   /\ Len(s) = 1
                   /\ s[1].To = c /\ s[1].Command = "403" /\ s[1].Prefix = ServerName
                   /\ Quiet(W2) = Noted(c)

\* Client 0 is with client 1 on the one channel and client 2 is on none:
\* the PART of client 0 goes to the two and leaves the channel to client 1,
\* whose PART then ends it, and the PART of client 2 gets a 403 for the
\* channel it is not on, for one that does not exist and for a name that is
\* not valid.
C9_Witness ==
    /\ RegisteredClients = {0, 1, 2}
    /\ Channels = [ch \in {"#x"} |-> {0, 1}]
    /\ \E ord \in OrdersFor(World, 0, Msg("PART", <<"#x">>)) :
          \E W2 \in {handleMessage(World, 0, Msg("PART", <<"#x">>), ord)} :
             /\ {W2.sent[i].To : i \in 1..Len(W2.sent)} = {0, 1}
             /\ W2.Channels["#x"] = {1}
             /\ \E o2 \in OrdersFor(W2, 1, Msg("PART", <<"#x">>)) :
                   handleMessage(Quiet(W2), 1, Msg("PART", <<"#x">>), o2).Channels = EmptyMap
    /\ \A ch \in {"#x", "#Y", "x"} :
          \E ord \in OrdersFor(World, 2, Msg("PART", <<ch>>)) :
             handleMessage(World, 2, Msg("PART", <<ch>>), ord).sent[1].Command = "403"

\* C10: a PRIVMSG of a registered client to a channel that exists goes, if
\* the client is a member, once to every other member and to nobody else
\* (not to the sender); if the client is not a member it goes to nobody and
\* the client gets a 404. Nothing but the time of the client's last
\* activity changes.
C10_ChannelPrivmsg ==
    Alive =>
    \A c \in RegisteredClients :
       \A ch \in ChannelInputs :
          LET m == Msg("PRIVMSG", <<ch, "hi">>)
              channelName == canonicalizeChannel(ch)
          IN
          channelName \in DOMAIN Channels =>
             \A ord \in OrdersFor(World, c, m) :
                \A W2 \in {handleMessage(World, c, m, ord)} :
                LET s == W2.sent IN
                /\ W2.panicked = ""
                /\ Quiet(W2) = Noted(c)
                /\ IF c \in Channels[channelName]
                   THEN
                      /\ Len(s) = Cardinality(Channels[channelName]) - 1
                      /\ \A k \in ClientIds :
                            Cardinality(SentTo(W2, k, "PRIVMSG"))
                               = IF k \in Channels[channelName] \ {c} THEN 1 ELSE 0
                      /\ \A i \in 1..Len(s) :
                            /\ s[i].Command = "PRIVMSG"
                            /\ s[i].Prefix = nickUhost(World, c)
                            /\ s[i].Params = <<channelName, "hi">>
                   ELSE
                      s = <<[To |-> c, Prefix |-> ServerName, Command |-> "404",
                             Params |-> <<client[c].Nick, channelName,
                                          "Cannot send to channel">>]>>

\* Three members of a channel: a message of one goes to the other two.
\* A client that is not on the other channel gets the 404 for it.
C10_Witness ==
    /\ RegisteredClients = {0, 1, 2}
    /\ DOMAIN Channels = {"#x", "#y"}
    /\ Channels["#x"] = {0, 1, 2} /\ Channels["#y"] = {0}
    /\ \E ord \in OrdersFor(World, 1, Msg("PRIVMSG", <<"#x", "hi">>)) :
          LET W2 == handleMessage(World, 1, Msg("PRIVMSG", <<"#x", "hi">>), ord)
          IN  Len(W2.sent) = 2 /\ {W2.sent[i].To : i \in 1..2} = {0, 2}
    /\ \E ord \in OrdersFor(World, 1, Msg("PRIVMSG", <<"#Y", "hi">>)) :
          LET W2 == handleMessage(World, 1, Msg("PRIVMSG", <<"#Y", "hi">>), ord)
          IN  Len(W2.sent) = 1 /\ W2.sent[1].Command = "404"

\* ------------------------------------------------------------------------
\* The registration gate.

\* The commands the dispatcher knows after the gate, and one it does not.
GatedCommands ==
    {"QUIT", "PONG", "PING", "JOIN", "PART", "PRIVMSG", "LUSERS", "MOTD", "DIE",
     "WHOIS", "OPER", "MODE", "WHO", "FOO"}

\* Messages without a prefix, of every command, that client c may send.
GateMessages(c) ==
    MessageInputs(c)
    \cup {Msg("CAP", <<"LS">>), Msg("USER", <<"u">>), Msg("NICK", <<>>)}
    \cup {Msg(k, p) : k \in GatedCommands, p \in {<<>>, <<"#x">>, <<"a", "hi">>}}

\* The one reply of the gate to client c.
NotRegistered(c) ==
    [To |-> c, Prefix |-> ServerName, Command |-> "451",
     Params |-> <<IF client[c].Nick = "" THEN "*" ELSE client[c].Nick,
                  "You have not registered.">>]

\* What the gate does to the messages of the clients that are not
\* registered, when the commands of `accepted` are those let through.
GateLets(accepted) ==
    Alive =>
       \A c \in Clients \ RegisteredClients :
          \A m \in GateMessages(c) :
             \A ord \in OrdersFor(World, c, m) :
                \A W2 \in {handleMessage(World, c, m, ord)} :
                   IF m.Command \in accepted
                   THEN SentTo(W2, c, "451") = {}
                   ELSE W2.sent = <<NotRegistered(c)>> /\ Quiet(W2) = Noted(c)

\* C11 as claimed: before registration NICK, USER, CAP, QUIT and PONG are
\* never answered with 451, and every other command is answered with 451 and
\* changes nothing but the time of last activity.
C11_AsClaimed == GateLets({"NICK", "USER", "CAP", "QUIT", "PONG"})

\* C11: before registration NICK, USER and CAP (sent without a prefix) are
\* never answered with 451; every other command, QUIT and PONG included, is
\* answered with exactly one 451 to the sender and changes nothing but the
\* sender's time of last activity.
C11_Gate == GateLets({"NICK", "USER", "CAP"})

\* A client that has a nick but is not registered sends QUIT next to a
\* registered one: it gets the 451 and stays in the indices.
C11_Witness ==
    /\ Alive
    /\ RegisteredClients # {}
    /\ \E c \in Clients \ RegisteredClients :
          /\ client[c].Nick # ""
          /\ \E W2 \in {handleMessage(World, c, Msg("QUIT", <<"bye">>),
                                       NoOrder)} :
                /\ W2.sent = <<NotRegistered(c)>>
                /\ c \in W2.Clients /\ canonicalizeNick(client[c].Nick) \in DOMAIN W2.Nicks

\* ------------------------------------------------------------------------
\* Registration.

\* A real name of 65 bytes.
LongRealName == "0123456789012345678901234567890123456789012345678901234567890123x"

\* USER messages: a good one, one with too few parameters, one with a user
\* name that is not valid, one with a real name that is too long.
UserInputs ==
    {Msg("USER", p) : p \in {<<"u", "0", "*", "r">>, <<"u">>, <<"U", "0", "*", "r">>,
                              <<"u", "0", "*", LongRealName>>}}

\* Whenever the event loop is in no handler, every registered client of
\* the index has a nick, and the nick index has it under that nick.
RegisteredHaveNick ==
    Quiescent =>
    \A c \in RegisteredClients :
       /\ client[c].Nick # ""
       /\ canonicalizeNick(client[c].Nick) \in DOMAIN Nicks
       /\ Nicks[canonicalizeNick(client[c].Nick)] = c

\* What USER does to the flag: nothing for a registered client (462) and
\* for one without a nick (ERROR), and nothing to any other client.
UserDecides ==
    Alive =>
       \A c \in Clients :
          \A m \in UserInputs :
             \A W2 \in {handleMessage(World, c, m, NoOrder)} :
                /\ \A k \in ClientIds \ {c} : W2.client[k].Registered = client[k].Registered
                /\ client[c].Registered =>
                      /\ W2.client[c].Registered
                      /\ Quiet(W2) = Noted(c)
                      /\ W2.sent = <<[To |-> c, Prefix |-> ServerName, Command |-> "462",
                                      Params |-> <<client[c].Nick,
                                         "Unauthorized command (already registered)">>]>>
                /\ ~client[c].Registered /\ client[c].Nick = "" =>
                      /\ ~W2.client[c].Registered
                      /\ Quiet(W2) = Noted(c)
                      /\ W2.sent = <<[To |-> c, Prefix |-> ServerName, Command |-> "ERROR",
                                      Params |-> <<"Please send NICK first">>]>>
                /\ ~client[c].Registered /\ W2.client[c].Registered =>
                      client[c].Nick # "" /\ m.Params = <<"u", "0", "*", "r">>

\* No other command, no dead client and no sweep changes the flag of any
\* client.
OthersKeepRegistered ==
    Alive =>
       /\ \A c \in Clients :
             /\ \A m \in {x \in GateMessages(c) : x.Command # "USER"} :
                   \A ord \in OrdersFor(World, c, m) :
                      \A W2 \in {handleMessage(World, c, m, ord)} :
                         \A k \in ClientIds : W2.client[k].Registered = client[k].Registered
             /\ \A ord \in OrdersFor(World, c, Msg("QUIT", <<>>)) :
                   \A W2 \in {quit(World, c, "I/O error", ord)} :
                      \A k \in ClientIds : W2.client[k].Registered = client[k].Registered
       /\ \A ord \in Orders(World) :
             \A W2 \in {checkAndPingClients(World, ord)} :
                \A k \in ClientIds : W2.client[k].Registered = client[k].Registered

\* A step of the event loop keeps the flag of a client that stays in the
\* index, and sets it only as a USER handler of that client does, which
\* had a nick.
RegisteredStep ==
    \A c \in ClientIds :
       /\ c \in Clients' /\ client[c].Registered => client'[c].Registered
       /\ ~client[c].Registered /\ client'[c].Registered =>
             /\ c \in Clients
             /\ client[c].Nick # ""
             /\ \E m \in UserInputs :
                   \E W2 \in {handleMessage(World, c, m, NoOrder)} :
                      client'[c] = W2.client[c] /\ Clients' = W2.Clients /\ Nicks' = W2.Nicks

\* C12: a client becomes registered only by a USER handled while it has a
\* nick and is not registered, so every registered client has a nick that
\* the nick index holds; the flag never goes back to false; USER from a
\* registered client (462) or from one without a nick (ERROR) leaves it.
C12_Registered ==
    /\ [](RegisteredHaveNick /\ UserDecides /\ OthersKeepRegistered)
    /\ [][RegisteredStep]_vars

\* Three clients in the index: one registered, one with a nick that its USER
\* registers, one without a nick.
C12_Witness ==
    /\ Alive
    /\ \E c \in RegisteredClients :
          handleMessage(World, c, Msg("USER", <<"u", "0", "*", "r">>), NoOrder).sent[1].Command
             = "462"
    /\ \E c \in Clients \ RegisteredClients :
          /\ client[c].Nick # ""
          /\ handleMessage(World, c, Msg("USER", <<"u", "0", "*", "r">>), NoOrder)
                .client[c].Registered
    /\ \E c \in Clients : client[c].Nick = ""

\* The commands of the messages of sequence msgs, in order.
CommandsOf(msgs) == [i \in 1..Len(msgs) |-> msgs[i].Command]

\* The welcome a client gets in state World: the 253 when some client of the
\* index has no nick, the 254 when there is a channel.
Welcome ==
    <<"001", "002", "003", "004", "251">>
    \o (IF Cardinality(Clients) > Cardinality(DOMAIN Nicks) THEN <<"253">> ELSE <<>>)
    \o (IF DOMAIN Channels # {} THEN <<"254">> ELSE <<>>)
    \o <<"255", "375", "372", "376">>

\* C13: a USER that registers its client sends that client, in this order
\* and with nothing else in between or to anyone else: 001, 002, 003, 004,
\* the LUSERS block (251, 253 if there are unknown connections, 254 if there
\* are channels, 255) and the MOTD block (375, 372, 376).
C13_Welcome ==
    Alive =>
       \A c \in Clients :
          \A m \in UserInputs :
             \A W2 \in {handleMessage(World, c, m, NoOrder)} :
                ~client[c].Registered /\ W2.client[c].Registered =>
                   /\ CommandsOf(W2.sent) = Welcome
                   /\ \A i \in 1..Len(W2.sent) :
                         /\ W2.sent[i].To = c
                         /\ W2.sent[i].Prefix = ServerName
                         /\ W2.sent[i].Params[1] = client[c].Nick
                   /\ W2.sent[Len(W2.sent) - 1].Params[2] = "- " \o Motd

\* A client registers while another has no nick and a channel exists: it
\* gets all eleven messages.
C13_Witness ==
    /\ Alive
    /\ DOMAIN Channels # {}
    /\ \E c \in Clients \ RegisteredClients :
          \E W2 \in {handleMessage(World, c, Msg("USER", <<"u", "0", "*", "r">>), NoOrder)} :
             /\ W2.client[c].Registered
             /\ CommandsOf(W2.sent) = <<"001", "002", "003", "004", "251", "253", "254",
                                        "255", "375", "372", "376">>

\* ------------------------------------------------------------------------
\* Nick collisions.

\* Nicks a client may ask for, in lower and in upper case.
TakenNicks == {"a", "b", "c", "d", "A", "B"}

\* The answer to NICK nick of client c when the nick is taken.
InUse(c, nick) ==
    [To |-> c, Prefix |-> ServerName, Command |-> "432",
     Params |-> <<IF client[c].Nick = "" THEN "*" ELSE client[c].Nick, nick,
                  "Nickname is already in use">>]

\* A NICK for one of `nicks` whose canonical form is a key of the nick
\* index gets the 432 that says so and changes neither the nick index nor
\* the nick of the client.
TakenIsRefused(nicks) ==
    Alive =>
       \A c \in Clients :
          \A nick \in {n \in nicks : canonicalizeNick(n) \in DOMAIN Nicks} :
             \A ord \in OrdersFor(World, c, Msg("NICK", <<nick>>)) :
                \A W2 \in {handleMessage(World, c, Msg("NICK", <<nick>>), ord)} :
                   /\ W2.sent = <<InUse(c, nick)>>
                   /\ W2.Nicks = Nicks
                   /\ W2.client[c].Nick = client[c].Nick
                   /\ Quiet(W2) = Noted(c)

\* C14 as claimed: a NICK whose canonical form is a key of the nick index,
\* the requester's own nick included, is answered with 432 'Nickname is
\* already in use' and changes neither the nick index nor the requester's
\* nick.
C14_AsClaimed == TakenIsRefused(TakenNicks)

\* C14: a NICK with a valid nick whose canonical form is a key of the nick
\* index, the requester's own nick included, is answered with 432 'Nickname
\* is already in use' and changes neither the nick index nor the
\* requester's nick.
C14_NickInUse == TakenIsRefused({n \in TakenNicks : isValidNick(n)})

\* A registered client asks for the nick it has, and another client of the
\* index for the same nick: both are refused.
C14_Witness ==
    /\ Alive
    /\ \E c \in RegisteredClients :
          /\ client[c].Nick = "a"
          /\ handleMessage(World, c, Msg("NICK", <<"a">>), NoOrder).sent = <<InUse(c, "a")>>
          /\ \E k \in Clients \ {c} :
                handleMessage(World, k, Msg("NICK", <<"a">>), NoOrder).sent = <<InUse(k, "a")>>

\* ------------------------------------------------------------------------
\* The sweep and dead clients.

\* now - LastActivityTime of client c.
IdleTime(c) == Sub(now, client[c].LastActivityTime)

\* World W2 has quit client c of the index for reason msg: it sent c one
\* ERROR with the reason, as the last message to c, closed its WriteChan,
\* and took c out of the client index, the nick index and every channel.
HasQuit(W2, c, msg) ==
    /\ c \notin W2.Clients
    /\ W2.client[c].WriteChanClosed
    /\ \A n \in DOMAIN W2.Nicks : W2.Nicks[n] # c
    /\ \A name \in DOMAIN W2.Channels : c \notin W2.Channels[name]
    /\ \E i \in 1..Len(W2.sent) :
          /\ W2.sent[i] = [To |-> c, Prefix |-> ServerName, Command |-> "ERROR",
                           Params |-> <<msg>>]
          /\ \A j \in 1..Len(W2.sent) :
                W2.sent[j].To = c /\ j # i => j < i /\ W2.sent[j].Command # "ERROR"

\* The sweep quits, with 'Ping timeout: N seconds', every registered client
\* that is idle for longer than the dead period and meets `also`.
SweepQuitsDead(also(_)) ==
    Alive =>
       \A ord \in Orders(World) :
          \A W2 \in {checkAndPingClients(World, ord)} :
             \A c \in RegisteredClients :
                IdleTime(c) > DeadTime /\ also(c) =>
                   HasQuit(W2, c, "Ping timeout: " \o Itoa(IdleTime(c)) \o " seconds")

AnyClient(c) == TRUE

IdleForPingTime(c) == IdleTime(c) >= PingTime

\* C15 as claimed: for any ping and dead periods, the sweep of a heartbeat
\* quits every registered client whose idle time exceeds the dead period,
\* with 'Ping timeout: N seconds'.
C15_AsClaimed == SweepQuitsDead(AnyClient)

\* C15: for any ping and dead periods, the sweep of a heartbeat quits every
\* registered client whose idle time exceeds the dead period and is not
\* below the ping period, with 'Ping timeout: N seconds': the client is sent
\* ERROR, its WriteChan is closed, and it is out of the client index, the
\* nick index and every channel.
C15_PingTimeout == SweepQuitsDead(IdleForPingTime)

\* Two registered clients on a channel are idle for longer than the dead
\* period and as long as the ping period: the sweep quits both.
C15_Witness ==
    /\ Alive
    /\ PingTime = 1 /\ DeadTime = 0
    /\ \E name \in DOMAIN Channels :
          \E c, k \in Channels[name] :
             /\ c # k
             /\ IdleTime(c) = 1 /\ IdleTime(k) = 1
             /\ \E ord \in Orders(World) :
                   \E W2 \in {checkAndPingClients(World, ord)} :
                      /\ HasQuit(W2, c, "Ping timeout: 1 seconds")
                      /\ HasQuit(W2, k, "Ping timeout: 1 seconds")
                      /\ name \notin DOMAIN W2.Channels

\* ------------------------------------------------------------------------
\* Operators.

\* OPER messages: the configured pair, a wrong password, a name that is not
\* configured, the password of another name's entry.
OperTries ==
    {Msg("OPER", p) : p \in {<<"root", "secret">>, <<"root", "guess">>,
                              <<"admin", "secret">>, <<"root", "">>}}

\* MODE messages of client c: for its own nick, for the nick of another
\* client and for a channel.
ModeTries(c) ==
    {Msg("MODE", <<t, f>>) :
        t \in {client[c].Nick, OperNick(1 - c), "#x"},
        f \in {"+o", "-o", "o", "+i-o", "-o+o", "+oo", "+x"}}

\* The name and password of m are an entry of the operator table.
Entitled(m) ==
    /\ Len(m.Params) >= 2
    /\ m.Params[1] \in DOMAIN Opers
    /\ Opers[m.Params[1]] = m.Params[2]

\* What OPER does for a registered client.
OperDecides ==
    Alive =>
       \A c \in RegisteredClients :
          \A m \in OperTries :
             \A W2 \in {handleMessage(World, c, m, NoOrder)} :
                /\ \A k \in ClientIds \ {c} : W2.client[k].Modes = client[k].Modes
                /\ ~Entitled(m) /\ ~isOperator(World, c) =>
                      /\ Quiet(W2) = Noted(c)
                      /\ W2.sent = <<[To |-> c, Prefix |-> ServerName, Command |-> "464",
                                      Params |-> <<client[c].Nick, "Password incorrect">>]>>
                /\ isOperator(World, c) => W2.client[c].Modes = client[c].Modes
                /\ Entitled(m) /\ ~isOperator(World, c) =>
                      /\ W2.client[c].Modes = client[c].Modes \cup {"o"}
                      /\ W2.sent =
                            <<[To |-> c, Prefix |-> nickUhost(World, c), Command |-> "MODE",
                               Params |-> <<client[c].Nick, "+o">>],
                              [To |-> c, Prefix |-> ServerName, Command |-> "381",
                               Params |-> <<client[c].Nick, "You are now an IRC operator">>]>>
                      /\ handleMessage(Quiet(W2), c, Msg("MODE", <<client[c].Nick>>),
                                       NoOrder).sent
                            = <<[To |-> c, Prefix |-> ServerName, Command |-> "221",
                                 Params |-> <<client[c].Nick, "+o">>]>>

\* What MODE does to the flag: it never adds it, and MODE -o for the
\* client's own nick takes it away.
ModeDecides ==
    Alive =>
       \A c \in RegisteredClients :
          \A m \in ModeTries(c) :
             \A W2 \in {handleMessage(World, c, m, NoOrder)} :
                /\ \A k \in ClientIds : W2.client[k].Modes \subseteq client[k].Modes
                /\ \A k \in ClientIds \ {c} : W2.client[k].Modes = client[k].Modes
                /\ m.Params = <<client[c].Nick, "-o">> => ~isOperator(W2, c)
                /\ m.Params[2] \in {"+o", "+oo", "+x", "o"} =>
                      W2.client[c].Modes = client[c].Modes

\* A step gives the flag to a client only as the handler of an OPER of
\* that client with an entry of the operator table does.
OperStep ==
    \A c \in ClientIds :
       ~isOperator(World, c) /\ "o" \in client'[c].Modes =>
          /\ c \in RegisteredClients
          /\ \E m \in OperTries :
                /\ Entitled(m)
                /\ \E W2 \in {handleMessage(World, c, m, NoOrder)} :
                      client' = W2.client /\ Nicks' = W2.Nicks /\ Clients' = W2.Clients

\* C20: a client has the flag o only by an OPER of its own with a name and
\* password of the operator table, and no longer once it has sent MODE -o
\* for itself; MODE +o never adds the flag; an OPER that fails (464) leaves
\* the modes; an OPER that succeeds sends MODE <nick> +o and then 381, and
\* a MODE <nick> query after it is answered 221 +o.
C20_Operator ==
    /\ [](OperDecides /\ ModeDecides)
    /\ [][OperStep]_vars

\* Two registered clients, one an operator and one not: MODE +o leaves the
\* second without the flag, and MODE -o takes it from the first.
C20_Witness ==
    /\ Alive
    /\ RegisteredClients = {0, 1}
    /\ isOperator(World, 0) /\ ~isOperator(World, 1)
    /\ ~isOperator(handleMessage(World, 1, Msg("MODE", <<"b", "+o">>), NoOrder), 1)
    /\ isOperator(handleMessage(World, 1, Msg("OPER", <<"root", "secret">>), NoOrder), 1)
    /\ ~isOperator(handleMessage(World, 0, Msg("MODE", <<"a", "-o">>), NoOrder), 0)

\* ------------------------------------------------------------------------
\* The goroutines.

\* A step of a reader, a writer, the acceptor or the alarm that does not
\* wait for a peer to connect, to send or to reset.
FiberStep ==
    \/ AcceptorStops
    \/ AcceptorFails
    \/ AcceptorAnnounces
    \/ AlarmChecks
    \/ ReaderFails
    \/ ReaderOffers
    \/ WriterReceives
    \/ WriterWrites
    \/ WriterFails

\* C16 as claimed: once ShutdownChan is closed every goroutine that was
\* started (the acceptor, the alarm, the reader and the writer of every
\* accepted client, in the client index or not) exits, so that WG.Wait
\* returns and start ends: when the event loop waits at the barrier, the
\* goroutines have all returned or one of them can take a step.
C16_AsClaimed ==
    panicked = "" /\ loopPc = "wait" => AllDone \/ ENABLED FiberStep

\* The event loop waits at a send on the WriteChan of client c, which is
\* full, and the writer of c has returned: nobody will make room.
BlockedOn(c) ==
    /\ panicked = ""
    /\ loopPc = "send"
    /\ Head(pending).op = "send"
    /\ Head(pending).to = c
    /\ Len(WriteChan[c]) >= OutboxCap
    /\ writer[c].pc = "done"

\* C17 as claimed: the event loop is never blocked for ever at a send on
\* the WriteChan of a client, not even when the writer of the client has
\* returned after a write error.
C17_AsClaimed == \A c \in ClientIds : ~BlockedOn(c)

\* The values on channel chan.
OnChan(chan) == {chan[i] : i \in 1..Len(chan)}

\* A reader or a writer that returns because of an error while ShutdownChan
\* is open puts its client on deadClientChan.
NoticeOffered ==
    \A c \in ClientIds :
       /\ ~shutdownClosed
       /\ \/ reader[c].pc = "read" /\ reader'[c].pc = "done"
          \/ writer[c].pc = "write" /\ writer'[c].pc = "done"
       => deadClientChan' = Append(deadClientChan, c)

\* The ERROR that Client.quit sends to client c for reason msg.
ErrorTo(c, msg) ==
    [To |-> c, Prefix |-> ServerName, Command |-> "ERROR", Params |-> <<msg>>]

\* The event loop takes the first client off deadClientChan: if it is in
\* the client index the loop starts Client.quit for it with 'I/O error'
\* and runs it up to its first send, with the rest of it under way, whose
\* last step is the close of the client's WriteChan after the ERROR; if it
\* is not, nothing changes.
NoticeHandled ==
    deadClientChan # <<>> /\ deadClientChan' = Tail(deadClientChan) =>
       LET c == Head(deadClientChan) IN
       IF c \in Clients
       THEN \E ord \in OrdersFor(World, c, Msg("QUIT", <<>>)) :
               \E W2 \in {quit(World, c, "I/O error", ord)} :
                  /\ HasQuit(W2, c, "I/O error")
                  /\ Clients' = W2.at[1].Clients
                  /\ Nicks' = W2.at[1].Nicks
                  /\ Channels' = W2.at[1].Channels
                  /\ pending' = Effects(World, W2, 1)
                  /\ pending'[Len(pending')]
                        = [op |-> "close", to |-> c, msg |-> ErrorTo(c, "I/O error"),
                           after |-> Tracked(W2)]
       ELSE UNCHANGED <<Clients, Nicks, Channels, client, pending>>

\* The event loop closes the WriteChan of a client after the ERROR with
\* 'I/O error': the client is then out of the client index, the nick index
\* and every channel.
NoticeDone ==
    \A c \in ClientIds :
       /\ pending # <<>>
       /\ Head(pending).op = "close"
       /\ Head(pending).to = c
       /\ Head(pending).msg = ErrorTo(c, "I/O error")
       /\ pending' = Tail(pending)
       => /\ writeChanClosed'[c]
          /\ c \notin Clients'
          /\ \A n \in DOMAIN Nicks' : Nicks'[n] # c
          /\ \A name \in DOMAIN Channels' : c \notin Channels'[name]

\* C18 as claimed, as far as a finite run can refute it: a client of the
\* index that has a dead-client notice waiting while ShutdownChan is open
\* leaves the index only at the close that ends its quit with 'I/O error'.
C18_AsClaimed ==
    [][\A c \in Clients :
          c \in OnChan(deadClientChan) /\ ~shutdownClosed /\ c \notin Clients' =>
             /\ pending # <<>>
             /\ Head(pending).op = "close"
             /\ Head(pending).msg = ErrorTo(c, "I/O error")]_vars

\* C18: a reader or writer that meets an error on its connection while the
\* server is not shutting down puts a dead-client notice on deadClientChan;
\* when the event loop takes a notice of a client that is still in the
\* index it quits the client with 'I/O error' (ERROR sent last, then the
\* WriteChan closed), which takes it out of all indices; a notice of a
\* client that has left the index before changes nothing.
C18_DeadClient == [][NoticeOffered /\ NoticeHandled /\ NoticeDone]_vars

\* The event loop is at its select with the notice of a registered client
\* that is on a channel next on deadClientChan.
C18_Witness ==
    /\ Selecting
    /\ ~shutdownClosed
    /\ deadClientChan # <<>>
    /\ Head(deadClientChan) \in RegisteredClients
    /\ client[Head(deadClientChan)].Channels # {}

\* The numbers of the messages of client c on messageServerChan, in order.
RECURSIVE SeqsOf(_, _)
SeqsOf(chan, c) ==
    IF chan = <<>> THEN <<>>
    ELSE (IF Head(chan).Client = c THEN <<Head(chan).Seq>> ELSE <<>>) \o SeqsOf(Tail(chan), c)

\* The numbers first, first + 1, ... of n messages.
Run(first, n) == [i \in 1..n |-> first + i - 1]

\* What is under way is in order: the messages of a client on
\* messageServerChan are those it read after the last one the event loop
\* took, and every one is the message the client sent at that place; the
\* messages on a WriteChan are the last ones enqueued, after the one the
\* writer holds or wrote last.
UnderWayInOrder ==
    /\ \A c \in ClientIds :
          /\ SeqsOf(messageServerChan, c)
                = Run(dispatched[c] + 1, Len(SeqsOf(messageServerChan, c)))
          /\ [i \in 1..Len(WriteChan[c]) |-> WriteChan[c][i].seq]
                = Run(enqueued[c] - Len(WriteChan[c]) + 1, Len(WriteChan[c]))
          /\ writer[c].pc = "write" =>
                /\ writer[c].held.seq = written[c] + 1
                /\ writer[c].held.seq = enqueued[c] - Len(WriteChan[c])
    /\ \A i \in 1..Len(messageServerChan) :
          messageServerChan[i].Message
             \in Script(messageServerChan[i].Client, messageServerChan[i].Seq)

\* The event loop takes the messages of a client, and a writer writes the
\* messages of its WriteChan, one after the other in the order of their
\* numbers; a send puts the next number last on the WriteChan.
TakenInOrder ==
    \A c \in ClientIds :
       /\ dispatched'[c] # dispatched[c] => dispatched'[c] = dispatched[c] + 1
       /\ written'[c] # written[c] => written'[c] = written[c] + 1
       /\ enqueued'[c] # enqueued[c] =>
             /\ enqueued'[c] = enqueued[c] + 1
             /\ WriteChan'[c] = Append(WriteChan[c],
                                       [msg |-> Head(pending).msg, seq |-> enqueued'[c]])

\* C19: the event loop handles the messages read from one connection in
\* the order they were read, and the writer of a client writes the
\* messages sent on its WriteChan in the order they were sent, in every
\* interleaving of the goroutines.
C19_Order == [](UnderWayInOrder) /\ [][TakenInOrder]_vars

\* Two messages of client 0 wait on messageServerChan in the order it sent
\* them, and later two messages wait on its WriteChan while its writer
\* holds the one before them.
C19_Witness ==
    \/ /\ SeqsOf(messageServerChan, 0) = <<1, 2>>
       /\ messageServerChan[1].Message.Command = "NICK"
    \/ /\ Len(WriteChan[0]) = 2
       /\ writer[0].pc = "write"
       /\ writer[0].held.msg.Command = "001"
       /\ WriteChan[0][1].msg.Command = "002" /\ WriteChan[0][2].msg.Command = "003"

\* ------------------------------------------------------------------------
\* Shutdown.

\* C21 as claimed: ShutdownChan is closed once only. Once it is closed, no
\* DIE that the event loop can still come to handle runs Server.shutdown
\* into close(s.ShutdownChan) again.
C21_AsClaimed ==
    Alive /\ shutdownClosed =>
       \A c \in Clients :
          \A ord \in Orders(World) :
             \A W2 \in {handleMessage(World, c, Msg("DIE", <<>>), ord)} :
                W2.panicked # "close of closed channel"

\* A goroutine waits at a send on one of the channels to the event loop:
\* the alarm on fromAlarmChan, the acceptor on newClientChan, a reader on
\* messageServerChan. (A reader or a writer at its send on deadClientChan
\* takes one of the two cases of its select in the step that brings it
\* there.)
AtSend ==
    \/ alarmPc = "send"
    \/ acceptor = "announce"
    \/ \E c \in ClientIds : reader[c].pc = "msg"

\* C22 as claimed: once ShutdownChan is closed no goroutine stays blocked
\* for ever at a send to the event loop, and the acceptor and the alarm
\* close their channel and return: when ShutdownChan is closed and no
\* step is left to anyone, nobody is at such a send, the acceptor and the
\* alarm have returned, and newClientChan and fromAlarmChan are closed.
C22_AsClaimed ==
    shutdownClosed /\ panicked = "" /\ ~ENABLED NextFibers =>
       /\ ~AtSend
       /\ acceptor = "done" /\ newClientClosed
       /\ alarmPc = "done" /\ fromAlarmClosed

\* ------------------------------------------------------------------------
\* The writer and the close of the connection.

\* The WriteChan of c is closed and everything sent on it has been written.
Flushed(c) ==
    /\ writeChanClosed[c]
    /\ WriteChan[c] = <<>>
    /\ writer[c].pc \in {"recv", "done"}
    /\ written[c] = enqueued[c]

\* The writer of c closes a connection on which no write has failed only
\* when the WriteChan is flushed.
ClosesFlushed ==
    \A c \in ClientIds :
       conn[c] = "open" /\ conn'[c] = "closed" => Flushed(c) /\ writer'[c].pc = "done"

\* C23: when the event loop has closed the WriteChan of a client and no
\* write fails, the writer writes every message sent on the WriteChan
\* before the close, in order, and closes the connection only after the
\* last of them: a connection closed by the writer has nothing unwritten.
C23_Flush ==
    /\ [](\A c \in ClientIds : conn[c] = "closed" => Flushed(c))
    /\ [][ClosesFlushed]_vars
    /\ [][\A c \in ClientIds : written'[c] # written[c] => written'[c] = written[c] + 1]_vars

\* The writer has closed the connection of a client that was sent more
\* messages than its WriteChan holds, the last one an ERROR.
C23_Witness ==
    \E c \in ClientIds :
       /\ conn[c] = "closed"
       /\ enqueued[c] > OutboxCap
       /\ written[c] = enqueued[c]

\* ------------------------------------------------------------------------
\* Clients that have quit.

\* Client.quit has run for client c: it has closed the WriteChan (1517)
\* and deleted the client from the client index (1519).
HasRunQuit(c) == client[c].WriteChanClosed

\* A client that has quit stays out of the client index, and its WriteChan
\* is closed once: a close waits only in the Client.quit of a client that
\* is in the client index and has not quit, it leaves the client out of
\* the index, and no two closes wait for the same WriteChan.
QuitOnce ==
    /\ panicked \notin {"close of closed channel", "send on closed channel"}
    /\ \A c \in ClientIds : HasRunQuit(c) => c \notin Clients
    /\ \A c \in ClientIds : writeChanClosed[c] => HasRunQuit(c)
    /\ \A i \in 1..Len(pending) :
          pending[i].op = "close" =>
             /\ pending[i].to \in Clients
             /\ ~HasRunQuit(pending[i].to)
             /\ ~writeChanClosed[pending[i].to]
             /\ pending[i].to \notin pending[i].after.Clients
             /\ pending[i].after.client[pending[i].to].WriteChanClosed
             /\ \A j \in 1..Len(pending) :
                   pending[j].op = "close" /\ pending[j].to = pending[i].to => j = i

\* What the event loop and its handlers own, and what they have under way.
LoopState == <<svars, pending, loopPc, WriteChan, writeChanClosed, enqueued>>

\* The event loop takes a message or a dead-client notice of a client that
\* is not in the client index: nothing but the channel changes.
GoneIsIgnored ==
    /\ (/\ messageServerChan # <<>>
        /\ messageServerChan' = Tail(messageServerChan)
        /\ Head(messageServerChan).Client \notin Clients) => UNCHANGED LoopState
    /\ (/\ deadClientChan # <<>>
        /\ deadClientChan' = Tail(deadClientChan)
        /\ Head(deadClientChan) \notin Clients) => UNCHANGED LoopState

\* Client.quit does not run again for a client, and a closed WriteChan
\* stays closed.
QuitIsFinal ==
    \A c \in ClientIds :
       /\ HasRunQuit(c) => client'[c] = client[c] /\ c \notin Clients'
       /\ writeChanClosed[c] => writeChanClosed'[c]

\* C24: Client.quit runs at most once for a client and a WriteChan is
\* closed at most once; a message or a dead-client notice that the event
\* loop takes for a client no longer in the client index (it has quit, or
\* its reader and its writer both gave notice) runs no handler and changes
\* no state.
C24_QuitOnce == [](QuitOnce) /\ [][GoneIsIgnored /\ QuitIsFinal]_vars

\* The event loop is at its select, and next on deadClientChan is the
\* second notice of a client that has quit.
C24_Witness ==
    /\ Selecting
    /\ deadClientChan # <<>>
    /\ HasRunQuit(Head(deadClientChan))
    /\ writeChanClosed[Head(deadClientChan)]
    /\ reader[Head(deadClientChan)].pc = "done"
    /\ writer[Head(deadClientChan)].pc = "done"

\* ------------------------------------------------------------------------
\* What the goroutines around the event loop write.

\* A step of a reader, of a writer, of the acceptor or of the alarm (the
\* alarm's send on fromAlarmChan is a step of the event loop, which
\* receives and runs the sweep).
GoroutineStep ==
    \/ \E c \in ClientIds : reader'[c] # reader[c] \/ writer'[c] # writer[c]
    \/ acceptor' # acceptor
    \/ alarmPc = "check" /\ alarmPc' # alarmPc

\* The step sends on no WriteChan and closes none: a WriteChan stays as it
\* is or loses its first message.
ReceiveSideOnly ==
    /\ UNCHANGED <<writeChanClosed, enqueued>>
    /\ \A c \in ClientIds :
          \/ WriteChan'[c] = WriteChan[c]
          \/ WriteChan[c] # <<>> /\ WriteChan'[c] = Tail(WriteChan[c])

\* C25: only the event loop writes the client index, the nick index, the
\* channel index, the members of the channels and the Client objects:
\* every step of a reader, a writer, the alarm or the acceptor leaves them
\* unchanged, and of a WriteChan it touches only the receive side.
C25_OnlyEventLoop ==
    [][GoroutineStep =>
          UNCHANGED <<Clients, Nicks, Channels, client>> /\ ReceiveSideOnly]_vars

\* A registered client is on a channel, its reader has read its messages
\* and its writer has written replies to it, and the acceptor has
\* announced it and come round its loop.
C25_Witness ==
    /\ accID > 0
    /\ acceptor \in {"check", "accept"}
    /\ \E c \in RegisteredClients :
          /\ client[c].Channels # {}
          /\ reads[c] > 0
          /\ written[c] > 0

\* ------------------------------------------------------------------------
\* The decisions of the sweep.

\* now - LastPingTime of client c.
SincePing(c) == Sub(now, client[c].LastPingTime)

\* The messages with the given command that world W2 sent to client c.
Received(W2, c, command) ==
    {i \in 1..Len(W2.sent) : W2.sent[i].To = c /\ W2.sent[i].Command = command}

\* The sweep left client c alone: it is in the index as before, its record
\* is unchanged, and it was sent no PING and no ERROR.
LeftAlone(W2, c) ==
    /\ c \in W2.Clients
    /\ W2.client[c] = client[c]
    /\ Received(W2, c, "PING") = {} /\ Received(W2, c, "ERROR") = {}

\* The sweep pinged client c: one PING with the server's name, LastPingTime
\* set to now, nothing else of the client changed.
Pinged(W2, c) ==
    /\ c \in W2.Clients
    /\ W2.client[c] = [client[c] EXCEPT !.LastPingTime = now]
    /\ Cardinality(Received(W2, c, "PING")) = 1
    /\ \A i \in Received(W2, c, "PING") :
          W2.sent[i] = [To |-> c, Prefix |-> ServerName, Command |-> "PING",
                        Params |-> <<ServerName>>]
    /\ Received(W2, c, "ERROR") = {}

\* What the sweep from the current state to W2 did with client c, the
\* cases taken in the order of the claim.
SweepDecides(W2, c) ==
    IF client[c].Registered
    THEN IF IdleTime(c) < PingTime THEN LeftAlone(W2, c)
         ELSE IF IdleTime(c) > DeadTime
         THEN HasQuit(W2, c, "Ping timeout: " \o Itoa(IdleTime(c)) \o " seconds")
         ELSE IF SincePing(c) >= PingTime THEN Pinged(W2, c)
         ELSE LeftAlone(W2, c)
    ELSE IF IdleTime(c) > DeadTime
         THEN HasQuit(W2, c, "Idle too long.") /\ Received(W2, c, "PING") = {}
         ELSE LeftAlone(W2, c)

\* C26: the sweep decides for each client of the index, the first case
\* that applies: registered and idle < pingPeriod, nothing; registered and
\* idle > deadPeriod, quit with 'Ping timeout: N seconds'; else registered
\* and sincePing >= pingPeriod, one PING and lastPing set to now, and with
\* sincePing < pingPeriod nothing; not registered and idle > deadPeriod,
\* quit with 'Idle too long.', else nothing. No client is sent more than
\* one PING in a sweep, and a sweep changes no LastActivityTime.
C26_Sweep ==
    Alive =>
       \A ord \in Orders(World) :
          \A W2 \in {checkAndPingClients(World, ord)} :
             /\ \A c \in Clients : SweepDecides(W2, c)
             /\ \A c \in ClientIds :
                   /\ Cardinality(Received(W2, c, "PING")) <= 1
                   /\ W2.client[c].LastActivityTime = client[c].LastActivityTime

\* A registered client idle for the ping period, and not longer than the
\* dead period, was pinged less than a ping period ago: the sweep leaves it
\* alone.
C26_Witness ==
    /\ Alive
    /\ \E c \in RegisteredClients :
          /\ IdleTime(c) >= PingTime /\ IdleTime(c) <= DeadTime
          /\ SincePing(c) < PingTime
          /\ \E ord \in Orders(World) :
                \E W2 \in {checkAndPingClients(World, ord)} :
                   /\ W2.sent = <<>>
                   /\ LeftAlone(W2, c)

\* ------------------------------------------------------------------------
\* The truncation of PRIVMSG.

\* p is a prefix of s.
IsPrefix(p, s) == Len(p) <= Len(s) /\ SubSeq(s, 1, Len(p)) = p

\* The length of the line that encodes the PRIVMSG msg (with a prefix, a
\* target and a text): ':' prefix ' PRIVMSG ' target ' :' text CR LF.
LineLength(msg) ==
    Len(":") + Len(msg.Prefix) + Len(" ") + Len(msg.Command) + Len(" ")
    + Len(msg.Params[1]) + Len(" ") + Len(":") + Len(msg.Params[2]) + 2

\* The PRIVMSGs a client can send in the current state.
Privmsgs(c) == {m \in TrimInputs(c) : m.Command = "PRIVMSG"}

\* C27 as claimed: for every sender, target and text the truncation of
\* PRIVMSG is well defined (it takes no more bytes from the text than the
\* text has, also when the target alone makes the line too long), and
\* every PRIVMSG that is forwarded carries a prefix of the text and
\* encodes to a line of at most MaxLineLength bytes.
C27_AsClaimed ==
    Alive =>
       \A c \in RegisteredClients :
          \A m \in Privmsgs(c) :
             \A ord \in OrdersFor(World, c, m) :
                \A W2 \in {handleMessage(World, c, m, ord)} :
                   /\ W2.panicked = ""
                   /\ \A i \in 1..Len(W2.sent) :
                         W2.sent[i].Command = "PRIVMSG" =>
                            /\ IsPrefix(W2.sent[i].Params[2], m.Params[2])
                            /\ LineLength(W2.sent[i]) <= MaxLineLength

\* ------------------------------------------------------------------------
\* The shutdown sequence.

\* World W2 is the current state after Server.shutdown: ShutdownChan is
\* closed, the Listener is closed, every client of the index has quit with 'Server shutting down'
\* (one ERROR, its last message, then its WriteChan closed), the three
\* indices are empty, and the clients that were not in the index are as
\* they were.
HasShutDown(W2) ==
    /\ W2.shutdownClosed
    /\ W2.listenerClosed
    /\ W2.Clients = {}
    /\ DOMAIN W2.Nicks = {}
    /\ DOMAIN W2.Channels = {}
    /\ \A k \in Clients :
          /\ HasQuit(W2, k, "Server shutting down")
          /\ Cardinality(Received(W2, k, "ERROR")) = 1
    /\ \A k \in ClientIds \ Clients :
          /\ W2.client[k] = client[k]
          /\ \A i \in 1..Len(W2.sent) : W2.sent[i].To # k

\* C28: Server.shutdown closes ShutdownChan, closes the Listener and runs
\* Client.quit with 'Server shutting down' once for every client in the
\* client index; when it returns, the client index, the nick index and
\* the channel index are empty, and the WriteChan of every client that was
\* in the index is closed, an ERROR being the last message sent to it.
C28_Shutdown ==
    Alive =>
       \A c \in RegisteredClients :
          \A ord \in Orders(World) :
             \A W2 \in {handleMessage(World, c, Msg("DIE", <<>>), ord)} :
                W2.panicked = "" => HasShutDown(W2)

\* A registered client sends DIE while two clients are on a channel and a
\* third client has not registered: the sequence returns.
C28_Witness ==
    /\ Alive
    /\ ~shutdownClosed
    /\ Clients \ RegisteredClients # {}
    /\ \E name \in DOMAIN Channels : Cardinality(Channels[name]) >= 2
    /\ \E c \in RegisteredClients :
          \E ord \in Orders(World) :
             \E W2 \in {handleMessage(World, c, Msg("DIE", <<>>), ord)} :
                W2.panicked = "" /\ HasShutDown(W2)

\* ------------------------------------------------------------------------
\* Sends and closed WriteChans.

\* Every client that the nick index or a channel refers to is in the
\* client index, and the WriteChan of a client in the index is open.
ReferredAreOpen ==
    /\ NickHolders \subseteq Clients
    /\ \A name \in DOMAIN Channels : Channels[name] \subseteq Clients
    /\ \A c \in Clients : ~client[c].WriteChanClosed

\* World W2, made by a handler from the current state, has sent on no
\* closed WriteChan, and only to clients that were in the client index.
SentToOpen(W2) ==
    /\ W2.panicked # "send on closed channel"
    /\ \A i \in 1..Len(W2.sent) : W2.sent[i].To \in Clients

\* C29: the event loop never sends on a WriteChan that is closed. In every
\* reachable state the clients that the nick index and the channels refer
\* to are in the client index, with an open WriteChan, and no handler (of
\* a message, of a dead-client notice, of the sweep) sends a message to a
\* client that has quit.
C29_OpenOutbox ==
    /\ panicked # "send on closed channel"
    /\ ReferredAreOpen
    /\ Alive =>
          /\ \A c \in Clients :
                /\ \A m \in MessageInputs(c) :
                      \A ord \in OrdersFor(World, c, m) :
                         SentToOpen(handleMessage(World, c, m, ord))
                /\ \A ord \in OrdersFor(World, c, Msg("QUIT", <<>>)) :
                      SentToOpen(quit(World, c, "I/O error", ord))
          /\ \A ord \in Orders(World) : SentToOpen(checkAndPingClients(World, ord))

\* A client has quit, and a member of a channel sends a PRIVMSG to the
\* channel, which goes to the other member.
C29_Witness ==
    /\ Alive
    /\ \E k \in ClientIds : client[k].WriteChanClosed
    /\ \E c \in RegisteredClients :
          /\ "#x" \in client[c].Channels
          /\ \E W2 \in {handleMessage(World, c, Msg("PRIVMSG", <<"#x", "hi">>), NoOrder)} :
                W2.panicked = "" /\ Len(W2.sent) = 1 /\ W2.sent[1].To # c

\* ------------------------------------------------------------------------
\* The event loop after shutdown.

\* C30 as claimed: once ShutdownChan is closed and Server.shutdown has
\* returned, so that the event loop is back at its select, the event loop
\* makes no further change of the server state: it puts no client of
\* newClientChan into the client index, handles no message and runs no
\* sweep, so that the client index stays empty.
C30_AsClaimed ==
    [][Alive /\ shutdownClosed =>
          /\ UNCHANGED <<Clients, Nicks, Channels, client>>
          /\ Clients' = {}]_vars

\* ------------------------------------------------------------------------
\* USER commands that are refused.

\* C31 as claimed: a USER command that is refused (the client is registered
\* already, has no nick, sends the wrong number of parameters, a user name
\* that is not valid, or a real name of more than 64 bytes) leaves the
\* User, the RealName and the Registered flag of the client as they were.
C31_AsClaimed ==
    Alive =>
       \A c \in Clients :
          \A m \in UserInputs :
             \A W2 \in {handleMessage(World, c, m, NoOrder)} :
                client[c].Registered \/ ~W2.client[c].Registered =>
                   /\ W2.client[c].User = client[c].User
                   /\ W2.client[c].RealName = client[c].RealName
                   /\ W2.client[c].Registered = client[c].Registered

\* ------------------------------------------------------------------------
\* Clients that have not registered, and the messages of others.

\* Message msg is sent to client k in the name of another client: its
\* prefix is neither the server nor k itself.
FromAnother(msg, k) ==
    /\ msg.To = k
    /\ msg.Prefix \notin {ServerName, nickUhost(World, k)}

\* Message msg is a PRIVMSG addressed to the nick of client k.
AddressedTo(msg, k) ==
    /\ msg.Command = "PRIVMSG"
    /\ client[k].Nick # ""
    /\ msg.Params[1] = canonicalizeNick(client[k].Nick)

\* No message.
Nothing(msg, k) == FALSE

\* World W2, made by a handler from the current state, has sent to the
\* clients that are not registered no message in the name of another
\* client, but for those let through.
KeptFromNew(W2, let(_, _)) ==
    \A k \in Clients \ RegisteredClients :
       \A i \in 1..Len(W2.sent) :
          FromAnother(W2.sent[i], k) => let(W2.sent[i], k)

\* No handler sends such a message.
NewHearNobody(let(_, _)) ==
    Alive =>
       /\ \A c \in Clients :
             /\ \A m \in MessageInputs(c) :
                   \A ord \in OrdersFor(World, c, m) :
                      KeptFromNew(handleMessage(World, c, m, ord), let)
             /\ \A ord \in OrdersFor(World, c, Msg("QUIT", <<>>)) :
                   KeptFromNew(quit(World, c, "I/O error", ord), let)
       /\ \A ord \in Orders(World) : KeptFromNew(checkAndPingClients(World, ord), let)

\* C32 as claimed: a client that has not completed registration is never
\* sent a message that another client originated (PRIVMSG, JOIN, PART,
\* NICK, QUIT with the prefix of another client), although a client that
\* has sent NICK is in the nick index before it registers.
C32_AsClaimed == NewHearNobody(Nothing)

\* C32: a client that has not completed registration is never sent a
\* message that another client originated, except a PRIVMSG addressed to
\* the nick it holds in the nick index.
C32_Unregistered == NewHearNobody(AddressedTo)

\* A client that has sent NICK a and has not registered is sent the
\* PRIVMSG of a registered client, while two registered clients are on a
\* channel whose messages it does not get.
C32_Witness ==
    /\ Alive
    /\ \E k \in Clients \ RegisteredClients :
          /\ client[k].Nick = "a"
          /\ \E c \in RegisteredClients :
                /\ Cardinality(MembersOf(World, "#x")) >= 2
                /\ c \in MembersOf(World, "#x")
                /\ \E W2 \in {handleMessage(World, c, Msg("PRIVMSG", <<"a", "hi">>), NoOrder)} :
                      /\ Len(W2.sent) = 1
                      /\ FromAnother(W2.sent[1], k) /\ AddressedTo(W2.sent[1], k)
                /\ \E W2 \in {handleMessage(World, c, Msg("PRIVMSG", <<"#x", "hi">>), NoOrder)} :
                      /\ Len(W2.sent) = 1
                      /\ W2.sent[1].To # k

====
